---------------------------- MODULE Spec2Model ----------------------------
(***************************************************************************)
(* Backtesting engine (src/lib/backtesting-engine.ts), its HTTP entry      *)
(* points (src/app/api/backtest/*, src/app/api/strategies/*/backtest) and  *)
(* the risk manager (src/lib/risk-management.ts) as state machines.        *)
(*                                                                         *)
(* Numbers.  The code computes in IEEE doubles; the model computes the     *)
(* same expressions exactly, in integers:                                  *)
(*   - money and prices are whole multiples of 1/Unit dollar; the          *)
(*     slippage values of Slippages are chosen so that every price the     *)
(*     engine derives (entry, stop-loss, take-profit, slipped exit) is a   *)
(*     whole number of units;                                              *)
(*   - timestamps are in ticks, TicksPerDay ticks to the 86400000 ms day;  *)
(*   - a quotient that is only compared is compared by cross               *)
(*     multiplication, a quotient that is stored is stored as the record   *)
(*     [num, den].                                                         *)
(***************************************************************************)
EXTENDS Integers, Sequences, FiniteSets, TLC

VARIABLES
    \* ---- BacktestingEngine.runBacktest (one run) ----
    parameters,       \* BacktestParameters of the run
    pc,               \* "loop": inside `for (const dateStr of dates)`; "done": returned
    historicalData,   \* [symbol -> sequence of bars generated so far]
    dayIdx,           \* number of dates of `dates` already processed
    currentCapital,   \* cash
    positions,        \* open BacktestPosition[]
    trades,           \* BacktestTrade[]
    equityCurve,      \* BacktestResult['equityCurve']
    resultMetrics,    \* BacktestResult['metrics'] of the run returned, or Null
    performanceStats, \* its BacktestResult['performanceStats'], or Null
    firstRun,         \* result of an earlier run with the same parameters, or NoRun
    \* ---- HTTP entry points (one request) ----
    request,          \* the parsed request body and the caller, or Null
    response,         \* the NextResponse returned, or Null
    optimizationResults, \* the array optimizeStrategy returns (sorted in place by the route)
    backtestsRun,     \* calls of runBacktest made for the request
    barsProcessed,    \* bars generated and looped over for the request
    \* ---- RiskManager (the exported singleton) ----
    defaultParameters, \* its `defaultParameters` field
    riskResult        \* the last public operation called and what it returned, or Null

btVars == <<parameters, pc, historicalData, dayIdx, currentCapital, positions,
            trades, equityCurve, resultMetrics, performanceStats, firstRun>>

apiVars == <<request, response, optimizationResults, backtestsRun, barsProcessed>>

riskVars == <<defaultParameters, riskResult>>

vars == <<btVars, apiVars, riskVars>>

-----------------------------------------------------------------------------
(* Arithmetic helpers *)

Min(a, b) == IF a <= b THEN a ELSE b
Max(a, b) == IF a >= b THEN a ELSE b
Abs(a) == IF a >= 0 THEN a ELSE -a

\* Math.ceil(a / b) for b > 0
CeilDiv(a, b) == -((-a) \div b)

\* money units per dollar
Unit == 125 * 100

\* (x * p) / 100, the product taken in two parts to stay within 32 bits
Pct(x, p) == (x \div 100) * p + ((x % 100) * p) \div 100

RECURSIVE SumSeq(_)
SumSeq(s) == IF s = <<>> THEN 0 ELSE Head(s) + SumSeq(Tail(s))

\* Array.prototype.slice(-n)
LastN(s, n) == IF Len(s) <= n THEN s ELSE SubSeq(s, Len(s) - n + 1, Len(s))

-----------------------------------------------------------------------------
(* Program constants *)

\* `historicalData.length < 20`
MinHistory == 20
shortPeriod == 10
longPeriod == 20
\* `this.calculateRSI(recentData, 14)`
rsiPeriod == 14
\* `if (positionSize < 1000) return null`, in dollars
MinPositionSize == 1000

\* the day, 1000 * 60 * 60 * 24 ms, in ticks
TicksPerDay == 2

NoRun == [none |-> TRUE]
Null == [null |-> TRUE]

-----------------------------------------------------------------------------
(* Inputs of a run.  The bounds of the model are FreeDays and the sets     *)
(* below.                                                                  *)

\* Number of simulated days whose price move is drawn freely, after the
\* opening moves of Opening.
FreeDays == 8

\* Close of a symbol's first bar, in dollars: generateHistoricalData starts
\* at 100 + Math.random() * 200 and applies one daily change.
FirstCloses == {270}

\* Daily change of the close, in dollars.  generateHistoricalData multiplies
\* the close by 1 + 0.0002 + (Math.random() - 0.5) * 0.04 each day.
Moves == {-5, 5}

\* The first moves of every price path (chosen so that the moving averages
\* cross on the last of them).
Opening == << 5, -5, -5, 5, -5, -5, 5, 5, -5, 5, 5, -5, -5, 5, -5, -5, 5, 5, 5 >>

\* |high - close| or |close - low| of a bar, in dollars (below 1% of close)
Wick == {2}

Symbols == {"AAA"}
SymbolLists == { <<"AAA">> }
\* the strategy of a run: the base strategy, or a variant of optimizeStrategy
Strategies == {"base", "variant"}
StartDates == {0, 1}              \* midnight UTC, or noon
InitialCapitals == {10000, 20000} \* dollars
Commissions == {0, 5, 100}        \* dollars per trade
Slippages == {0, 4}               \* percent
MaxPositionsChoices == {1, 10}

\* Length of the simulated range in days
RunDays == Len(Opening) + FreeDays
\* endDate - startDate: a whole number of days, or half a day less
Spans == {TicksPerDay * RunDays - 1, TicksPerDay * RunDays}

-----------------------------------------------------------------------------
(* generateHistoricalData *)

\* `Math.ceil((endDate.getTime() - startDate.getTime()) / (1000 * 60 * 60 * 24))`
DaysOf(p) == CeilDiv(p.endDate - p.startDate, TicksPerDay)

\* timestamp of bar i: `new Date(startDate.getTime() + i * 24 * 60 * 60 * 1000)`
BarTime(p, i) == p.startDate + i * TicksPerDay

\* A daily change the generator can produce: the factor
\* 1 + trend + randomChange lies strictly inside (0.9802, 1.0202).
ValidMove(prev, new) ==
    /\ 9802 * prev < 10000 * new
    /\ 10000 * new < 10202 * prev

\* The bars generateHistoricalData can append for `symbol` as bar number i
\* (0-based), given the bars generated before.  open and volume are never
\* read by the engine and are left out.
NextBars(p, symbol, prevBars, i) ==
    IF i = 0
    THEN { [timestamp |-> BarTime(p, 0), symbol |-> symbol,
            high |-> c, low |-> c, close |-> c] : c \in FirstCloses }
    ELSE LET prev == prevBars[Len(prevBars)].close
             ms   == IF i <= Len(Opening) THEN {Opening[i]} ELSE Moves
         IN { [timestamp |-> BarTime(p, i), symbol |-> symbol,
               high  |-> IF m > 0 THEN prev + m + w ELSE prev + m,
               low   |-> IF m > 0 THEN prev + m ELSE prev + m - w,
               close |-> prev + m] :
              <<m, w>> \in { mw \in ms \X Wick : ValidMove(prev, prev + mw[1]) } }

-----------------------------------------------------------------------------
(* groupDataByDate, and the dates of the loop *)

\* `item.timestamp.toISOString().split('T')[0]`, as a day number
DateKey(t) == t \div TicksPerDay

\* `new Date(dateStr)`: midnight UTC of the date
DateOfKey(k) == k * TicksPerDay

\* dataByDate[dateStr]: the bars of that date, in the order of `data`
\* (symbol by symbol)
RECURSIVE DayDataFrom(_, _, _, _)
DayDataFrom(data, symbols, k, j) ==
    IF j > Len(symbols) THEN <<>>
    ELSE SelectSeq(data[symbols[j]], LAMBDA d : DateKey(d.timestamp) = k)
         \o DayDataFrom(data, symbols, k, j + 1)
DayData(data, symbols, k) == DayDataFrom(data, symbols, k, 1)

\* `dayData.find(d => d.symbol === symbol)`
FindSymbol(dayData, symbol) ==
    LET hits == SelectSeq(dayData, LAMBDA d : d.symbol = symbol)
    IN IF hits = <<>> THEN Null ELSE hits[1]


-----------------------------------------------------------------------------
(* generateTradingSignal and calculateRSI.  Closes are in dollars; every   *)
(* comparison below is the code's comparison multiplied through by the     *)
(* (positive) denominators.                                                *)

Closes(bars) == [i \in 1..Len(bars) |-> bars[i].close]

\* sums of `gains.slice(-period)` and `losses.slice(-period)`
RsiGain(cs, period) ==
    SumSeq(LastN([i \in 1..(Len(cs) - 1) |-> Max(0, cs[i + 1] - cs[i])], period))
RsiLoss(cs, period) ==
    SumSeq(LastN([i \in 1..(Len(cs) - 1) |-> Max(0, cs[i] - cs[i + 1])], period))

\* calculateRSI as the fraction num / den
\*   50 when data.length < period + 1; 100 when avgLoss = 0;
\*   else 100 - 100 / (1 + avgGain / avgLoss) = 100 * gain / (gain + loss)
calculateRSI(bars, period) ==
    LET cs == Closes(bars)
        g  == RsiGain(cs, period)
        l  == RsiLoss(cs, period)
    IN IF Len(bars) < period + 1 THEN [num |-> 50, den |-> 1]
       ELSE IF l = 0 THEN [num |-> 100, den |-> 1]
       ELSE [num |-> 100 * g, den |-> g + l]

\* min(1, a + b) for fractions a, b with positive denominators
StrengthOf(a, b) ==
    LET n == a.num * b.den + b.num * a.den
        d == a.den * b.den
    IN IF n >= d THEN [num |-> 1, den |-> 1] ELSE [num |-> n, den |-> d]

\* the moving-average crossover: the statements of generateTradingSignal
\* after its test of `historicalData.length`
crossoverSignal(currentData, strategy, hist) ==
    LET recentData == Closes(LastN(hist, longPeriod))
        n        == Len(recentData)
        \* shortMA = sumShort / 10, longMA = sumLong / 20
        sumShort == SumSeq(LastN(recentData, shortPeriod))
        sumLong  == SumSeq(recentData)
        \* prevShortMA = sumPrevShort / 10: recentData.slice(-11, -1)
        sumPrevShort ==
            SumSeq(SubSeq(recentData, Max(1, n - shortPeriod), n - 1))
        \* prevLongMA = sumPrevLong / 19: recentData.slice(0, -1) over longPeriod - 1
        sumPrevLong  == SumSeq(SubSeq(recentData, 1, n - 1))
        rsi == calculateRSI(LastN(hist, longPeriod), rsiPeriod)
        shortAbove == longPeriod * sumShort > shortPeriod * sumLong
        shortBelow == longPeriod * sumShort < shortPeriod * sumLong
        prevAtOrBelow ==
            (longPeriod - 1) * sumPrevShort <= shortPeriod * sumPrevLong
        prevAtOrAbove ==
            (longPeriod - 1) * sumPrevShort >= shortPeriod * sumPrevLong
        rsiBelow70 == rsi.num < 70 * rsi.den
        rsiAbove30 == rsi.num > 30 * rsi.den
        \* (shortMA - longMA) / longMA
        gap == [num |-> longPeriod * sumShort - shortPeriod * sumLong,
                den |-> shortPeriod * sumLong]
    IN IF shortAbove /\ prevAtOrBelow /\ rsiBelow70
       THEN [type |-> "BUY",
             strength |-> StrengthOf(gap, [num |-> 70 * rsi.den - rsi.num,
                                           den |-> 100 * rsi.den]),
             price |-> currentData.close, timestamp |-> currentData.timestamp,
             reasoning |-> "MA crossover bullish"]
       ELSE IF shortBelow /\ prevAtOrAbove /\ rsiAbove30
       THEN [type |-> "SELL",
             strength |-> StrengthOf([num |-> -gap.num, den |-> gap.den],
                                     [num |-> rsi.num - 30 * rsi.den,
                                      den |-> 100 * rsi.den]),
             price |-> currentData.close, timestamp |-> currentData.timestamp,
             reasoning |-> "MA crossover bearish"]
       ELSE [type |-> "HOLD", strength |-> [num |-> 0, den |-> 1],
             price |-> currentData.close, timestamp |-> currentData.timestamp,
             reasoning |-> "No clear signal"]

\* generateTradingSignal without `if (historicalData.length < 20)`
generateTradingSignalUnguarded(currentData, strategy, hist) ==
    crossoverSignal(currentData, strategy, hist)

generateTradingSignal(currentData, strategy, hist) ==
    IF Len(hist) < MinHistory
    THEN [type |-> "HOLD", strength |-> [num |-> 0, den |-> 1],
          price |-> currentData.close, timestamp |-> currentData.timestamp,
          reasoning |-> "Insufficient historical data"]
    ELSE crossoverSignal(currentData, strategy, hist)

-----------------------------------------------------------------------------
(* executeEntry.  Money is in units of 1/Unit dollar.                       *)

\* a close, high or low of a bar (dollars) as a price in units
Price(dollars) == dollars * Unit

\* `data.close * (1 + parameters.slippage / 100)`
EntryPrice(close, slippage) == Pct(Price(close), 100 + slippage)

\* 10 * positionSize = 10 * min(availableCapital * 0.1, initialCapital * 0.2)
PositionSize10(availableCapital, p) ==
    Min(availableCapital, 2 * p.initialCapital * Unit)

\* executeEntry with the target size halved for a variant strategy
executeEntryByStrategy(signal, data, availableCapital, p) ==
    LET size10      == IF p.strategy = "base"
                       THEN PositionSize10(availableCapital, p)
                       ELSE PositionSize10(availableCapital, p) \div 2
        entryPrice  == EntryPrice(data.close, p.slippage)
        quantity    == size10 \div (10 * entryPrice)
        actualValue == quantity * entryPrice + p.commission * Unit
    IN IF size10 < 10 * MinPositionSize * Unit THEN Null
       ELSE IF actualValue > availableCapital THEN Null
       ELSE [symbol |-> data.symbol, side |-> "LONG",
             entryPrice |-> entryPrice, entryDate |-> data.timestamp,
             quantity |-> quantity,
             stopLoss |-> Pct(entryPrice, 95),
             takeProfit |-> Pct(entryPrice, 115),
             value |-> actualValue]

executeEntry(signal, data, availableCapital, p) ==
    LET size10      == PositionSize10(availableCapital, p)
        entryPrice  == EntryPrice(data.close, p.slippage)
        \* Math.floor(positionSize / entryPrice)
        quantity    == size10 \div (10 * entryPrice)
        actualValue == quantity * entryPrice + p.commission * Unit
    IN IF size10 < 10 * MinPositionSize * Unit THEN Null
       ELSE IF actualValue > availableCapital THEN Null
       ELSE [symbol |-> data.symbol, side |-> "LONG",
             entryPrice |-> entryPrice, entryDate |-> data.timestamp,
             quantity |-> quantity,
             stopLoss |-> Pct(entryPrice, 95),
             takeProfit |-> Pct(entryPrice, 115),
             value |-> actualValue]

-----------------------------------------------------------------------------
(* closePosition and processExistingPositions *)

closePosition(position, exitPrice, exitDate, reason, p) ==
    LET adjustedExitPrice == Pct(exitPrice, 100 - p.slippage)
        profit == (adjustedExitPrice - position.entryPrice) * position.quantity
                  - p.commission * Unit * 2
    IN [symbol |-> position.symbol, side |-> position.side,
        entryPrice |-> position.entryPrice, exitPrice |-> adjustedExitPrice,
        entryDate |-> position.entryDate, exitDate |-> exitDate,
        quantity |-> position.quantity, profit |-> profit,
        \* (profit / (entryPrice * quantity)) * 100
        profitPercent |-> [num |-> profit * 100,
                           den |-> position.entryPrice * position.quantity],
        commission |-> p.commission * Unit * 2,
        holdingPeriod |-> CeilDiv(exitDate - position.entryDate, TicksPerDay),
        reason |-> reason]

\* the exit decision with a signal-driven exit: a position is also closed on
\* a bar that closes under its entry price
ExitReasonWithSignalExit(position, symbolData) ==
    IF position.stopLoss # 0 /\ Price(symbolData.low) <= position.stopLoss
    THEN "STOP_LOSS"
    ELSE IF position.takeProfit # 0 /\ Price(symbolData.high) >= position.takeProfit
    THEN "TAKE_PROFIT"
    ELSE IF Price(symbolData.close) < position.entryPrice
    THEN "SIGNAL_EXIT"
    ELSE "NONE"

\* the exit decision with the two tests in the other order
ExitReasonTakeProfitFirst(position, symbolData) ==
    IF position.takeProfit # 0 /\ Price(symbolData.high) >= position.takeProfit
    THEN "TAKE_PROFIT"
    ELSE IF position.stopLoss # 0 /\ Price(symbolData.low) <= position.stopLoss
    THEN "STOP_LOSS"
    ELSE "NONE"

\* exit decision for one position on one day: the reason, or "NONE"
ExitReason(position, symbolData) ==
    IF position.stopLoss # 0 /\ Price(symbolData.low) <= position.stopLoss
    THEN "STOP_LOSS"
    ELSE IF position.takeProfit # 0 /\ Price(symbolData.high) >= position.takeProfit
    THEN "TAKE_PROFIT"
    ELSE "NONE"

ExitPrice(position, reason) ==
    IF reason = "STOP_LOSS" THEN position.stopLoss ELSE position.takeProfit

\* the loop `for (const position of positions)`, from position number i
RECURSIVE ProcessFrom(_, _, _, _, _)
ProcessFrom(ps, i, dayData, p, acc) ==
    IF i > Len(ps) THEN acc
    ELSE
      LET position   == ps[i]
          symbolData == FindSymbol(dayData, position.symbol)
          reason     == IF symbolData = Null THEN "NONE"
                        ELSE ExitReason(position, symbolData)
      IN IF reason = "NONE"
         THEN ProcessFrom(ps, i + 1, dayData, p,
                [acc EXCEPT !.remainingPositions = Append(@, position)])
         ELSE
           LET exitPrice == ExitPrice(position, reason)
               trade == closePosition(position, exitPrice, symbolData.timestamp,
                                      reason, p)
           IN ProcessFrom(ps, i + 1, dayData, p,
                [acc EXCEPT !.closedTrades = Append(@, trade),
                            !.capitalFromClosedTrades =
                               @ + trade.quantity * exitPrice - p.commission * Unit])

processExistingPositions(ps, dayData, p) ==
    ProcessFrom(ps, 1, dayData, p,
        [closedTrades |-> <<>>, remainingPositions |-> <<>>,
         capitalFromClosedTrades |-> 0])


-----------------------------------------------------------------------------
(* runBacktest *)

\* `historicalData.filter(d => d.symbol === symbol && d.timestamp <= date)`
HistoryUpTo(data, symbol, date) ==
    SelectSeq(data[symbol], LAMBDA d : d.timestamp <= date)

\* the entry test with the signal alone
MayEnterOnSignal(signal, ps, p) == signal.type = "BUY"

\* `signal.type === 'BUY' && positions.length < parameters.maxPositions`
MayEnter(signal, ps, p) == signal.type = "BUY" /\ Len(ps) < p.maxPositions

\* the loop `for (const symbolData of dayData)`, from bar number i of the day;
\* acc carries `positions` and `currentCapital`
RECURSIVE EntriesFrom(_, _, _, _, _, _)
EntriesFrom(dayData, i, data, date, p, acc) ==
    IF i > Len(dayData) THEN acc
    ELSE
      LET symbolData == dayData[i]
          signal == generateTradingSignal(symbolData, p.strategy,
                        HistoryUpTo(data, symbolData.symbol, date))
          newPosition ==
              IF MayEnter(signal, acc.positions, p)
              THEN executeEntry(signal, symbolData, acc.currentCapital, p)
              ELSE Null
      IN EntriesFrom(dayData, i + 1, data, date, p,
           IF newPosition = Null THEN acc
           ELSE [positions |-> Append(acc.positions, newPosition),
                 currentCapital |-> acc.currentCapital - newPosition.value])

\* `dayData.find(d => d.symbol === pos.symbol)?.close || pos.entryPrice`
MarkPrice(pos, dayData) ==
    LET d == FindSymbol(dayData, pos.symbol)
    IN IF d # Null /\ d.close # 0 THEN Price(d.close) ELSE pos.entryPrice

\* open positions valued at their entry price instead of the day's close
PositionValueAtEntry(ps, dayData) ==
    SumSeq([i \in 1..Len(ps) |-> ps[i].quantity * ps[i].entryPrice])

\* `positions.reduce((sum, pos) => sum + pos.quantity * currentPrice, 0)`
PositionValue(ps, dayData) ==
    SumSeq([i \in 1..Len(ps) |-> ps[i].quantity * MarkPrice(ps[i], dayData)])

\* `Math.max(0, parameters.initialCapital - currentEquity)`
Drawdown(p, currentEquity) == Max(0, p.initialCapital * Unit - currentEquity)

EquityPoint(p, date, cash, ps, dayData) ==
    LET currentEquity == cash + PositionValue(ps, dayData)
        drawdown == Drawdown(p, currentEquity)
    IN [date |-> date, equity |-> currentEquity, drawdown |-> drawdown,
        \* (drawdown / initialCapital) * 100
        drawdownPercent |-> [num |-> drawdown,
                             den |-> p.initialCapital * (Unit \div 100)]]

\* The bars generated for the date with number dayIdx: one per symbol.
\* generateHistoricalData builds the whole series before the loop starts;
\* bar i of a symbol depends on bar i - 1 only and the loop at date i reads
\* no later bar, so the bars are drawn here when the loop reaches their date.
DayDraws(p, data, i) ==
    { f \in [ {p.symbols[j] : j \in 1..Len(p.symbols)} ->
                UNION { NextBars(p, sym, data[sym], i) : sym \in DOMAIN data } ] :
        \A sym \in DOMAIN f : f[sym] \in NextBars(p, sym, data[sym], i) }

\* One iteration of `for (const dateStr of dates)`
RunDay ==
    /\ pc = "loop"
    /\ dayIdx <= DaysOf(parameters)
    /\ \E draw \in DayDraws(parameters, historicalData, dayIdx) :
         LET data    == [sym \in DOMAIN historicalData |->
                            Append(historicalData[sym], draw[sym])]
             key     == DateKey(BarTime(parameters, dayIdx))
             date    == DateOfKey(key)
             dayData == DayData(data, parameters.symbols, key)
             exits   == processExistingPositions(positions, dayData, parameters)
             entered == EntriesFrom(dayData, 1, data, date, parameters,
                          [positions |-> exits.remainingPositions,
                           currentCapital |->
                              currentCapital + exits.capitalFromClosedTrades])
         IN /\ historicalData' = data
            /\ trades' = trades \o exits.closedTrades
            /\ positions' = entered.positions
            /\ currentCapital' = entered.currentCapital
            /\ equityCurve' = Append(equityCurve,
                   EquityPoint(parameters, date, entered.currentCapital,
                               entered.positions, dayData))
    /\ dayIdx' = dayIdx + 1
    /\ UNCHANGED <<parameters, pc, resultMetrics, performanceStats, firstRun>>
    /\ UNCHANGED <<apiVars, riskVars>>

-----------------------------------------------------------------------------
(* calculateMetrics and calculateVolatility.                               *)
(*                                                                         *)
(* A metric the code computes with +, -, * and / only is kept exactly, as  *)
(* a fraction.  A metric that comes out of Math.sqrt or Math.pow is kept   *)
(* as its class: the model records that it is some finite double, not      *)
(* which one.                                                              *)

\* the double num / den, den > 0
Exact(num, den) == [class |-> "exact", num |-> num, den |-> den]
\* a finite double whose value the model does not compute
Inexact == [class |-> "finite", num |-> 0, den |-> 0]
Infinity == [class |-> "Infinity", num |-> 0, den |-> 0]
NaN == [class |-> "NaN", num |-> 0, den |-> 0]

IsZero(x) == x.class = "exact" /\ x.num = 0

\* a / b = c / d for a, c >= 0 and b, d > 0, by the Euclidean algorithm (the
\* cross products do not fit the integers of the model checker)
RECURSIVE SameQuotient(_, _, _, _)
SameQuotient(a, b, c, d) ==
    IF a \div b # c \div d THEN FALSE
    ELSE IF a % b = 0 \/ c % d = 0 THEN a % b = c % d
    ELSE SameQuotient(b, a % b, d, c % d)

\* r = q for two returns [num, den] with den > 0
SameReturn(r, q) ==
    IF r.num >= 0 /\ q.num >= 0 THEN SameQuotient(r.num, r.den, q.num, q.den)
    ELSE IF r.num < 0 /\ q.num < 0 THEN SameQuotient(-r.num, r.den, -q.num, q.den)
    ELSE FALSE

\* `(current.equity - previous.equity) / previous.equity` over
\* `equityCurve.slice(1)`
DailyReturns(curve) ==
    [i \in 1..(Len(curve) - 1) |->
        [num |-> curve[i + 1].equity - curve[i].equity, den |-> curve[i].equity]]

\* calculateVolatility(returns) > 0: at least two returns, and a variance
\* above 0, which is to say two returns that differ
VolatilityPositive(returns) ==
    /\ Len(returns) >= 2
    /\ \E i \in 1..Len(returns) : ~SameReturn(returns[i], returns[1])

\* `Math.max(...equityCurve.map(e => e.drawdown))`
RECURSIVE MaxOf(_)
MaxOf(s) == IF Len(s) = 1 THEN s[1] ELSE Max(s[1], MaxOf(Tail(s)))

\* `this.getEmptyMetrics()`
getEmptyMetrics ==
    [totalReturn |-> 0, totalReturnPercent |-> Exact(0, 1),
     annualizedReturn |-> Exact(0, 1), sharpeRatio |-> Exact(0, 1),
     maxDrawdown |-> 0, maxDrawdownPercent |-> Exact(0, 1),
     volatility |-> Exact(0, 1),
     totalTrades |-> 0, winningTrades |-> 0, losingTrades |-> 0,
     winRate |-> Exact(0, 1), averageWin |-> Exact(0, 1),
     averageLoss |-> Exact(0, 1), profitFactor |-> Exact(0, 1),
     largestWin |-> 0, largestLoss |-> 0,
     averageHoldingPeriod |-> Exact(0, 1), totalCommissions |-> 0,
     calmarRatio |-> Exact(0, 1), sortinoRatio |-> Exact(0, 1)]

\* `volatility > 0 ? (excessReturn / volatility) * Math.sqrt(365) : 0`, for
\* the sharpeRatio and, over the downside returns, the sortinoRatio
RiskAdjusted(volatilityPositive) ==
    IF volatilityPositive THEN Inexact ELSE Exact(0, 1)

\* `averageWin / averageLoss` without the test `averageLoss > 0`
profitFactorUnguarded(averageWin, averageLoss) ==
    IF averageLoss.num > 0
    THEN Exact(averageWin.num * averageLoss.den, averageWin.den * averageLoss.num)
    ELSE IF averageWin.num > 0 THEN Infinity
    ELSE NaN

\* `averageLoss > 0 ? averageWin / averageLoss : 0`
profitFactor(averageWin, averageLoss) ==
    IF averageLoss.num > 0
    THEN Exact(averageWin.num * averageLoss.den, averageWin.den * averageLoss.num)
    ELSE Exact(0, 1)

\* `maxDrawdownPercent > 0 ? annualizedReturn / maxDrawdownPercent : 0`
calmarRatio(annualizedReturn, maxDrawdownPercent) ==
    IF maxDrawdownPercent.num > 0
    THEN (IF IsZero(annualizedReturn) THEN Exact(0, 1) ELSE Inexact)
    ELSE Exact(0, 1)

calculateMetrics(ts, curve, p) ==
    IF Len(ts) = 0 \/ Len(curve) = 0 THEN getEmptyMetrics
    ELSE
      LET initialCapital == p.initialCapital * Unit
          finalEquity == curve[Len(curve)].equity
          totalReturn == finalEquity - initialCapital
          \* years = days / 365 > 0;
          \* (Math.pow(finalEquity / initialCapital, 1 / years) - 1) * 100
          annualizedReturn ==
              IF finalEquity = initialCapital THEN Exact(0, 1) ELSE Inexact
          dailyReturns == DailyReturns(curve)
          volatilityPositive == VolatilityPositive(dailyReturns)
          maxDrawdown == MaxOf([i \in 1..Len(curve) |-> curve[i].drawdown])
          maxDrawdownPercent ==
              Exact(MaxOf([i \in 1..Len(curve) |-> curve[i].drawdownPercent.num]),
                    p.initialCapital * (Unit \div 100))
          winningTrades == SelectSeq(ts, LAMBDA t : t.profit > 0)
          losingTrades  == SelectSeq(ts, LAMBDA t : t.profit < 0)
          profits(s) == SumSeq([i \in 1..Len(s) |-> s[i].profit])
          averageWin ==
              IF Len(winningTrades) > 0
              THEN Exact(profits(winningTrades), Len(winningTrades))
              ELSE Exact(0, 1)
          averageLoss ==
              IF Len(losingTrades) > 0
              THEN Exact(Abs(profits(losingTrades)), Len(losingTrades))
              ELSE Exact(0, 1)
          downsideReturns == SelectSeq(dailyReturns, LAMBDA r : r.num < 0)
          downsideVolatilityPositive ==
              Len(downsideReturns) > 0 /\ VolatilityPositive(downsideReturns)
      IN [totalReturn |-> totalReturn,
          totalReturnPercent |-> Exact(totalReturn * 100, initialCapital),
          annualizedReturn |-> annualizedReturn,
          sharpeRatio |-> RiskAdjusted(volatilityPositive),
          maxDrawdown |-> maxDrawdown,
          maxDrawdownPercent |-> maxDrawdownPercent,
          \* volatility * Math.sqrt(365) * 100
          volatility |-> IF volatilityPositive THEN Inexact ELSE Exact(0, 1),
          totalTrades |-> Len(ts),
          winningTrades |-> Len(winningTrades),
          losingTrades |-> Len(losingTrades),
          winRate |-> Exact(Len(winningTrades) * 100, Len(ts)),
          averageWin |-> averageWin,
          averageLoss |-> averageLoss,
          profitFactor |-> profitFactor(averageWin, averageLoss),
          largestWin |-> MaxOf(<<0>> \o [i \in 1..Len(ts) |-> ts[i].profit]),
          largestLoss |-> -MaxOf(<<0>> \o [i \in 1..Len(ts) |-> -ts[i].profit]),
          averageHoldingPeriod |->
              Exact(SumSeq([i \in 1..Len(ts) |-> ts[i].holdingPeriod]), Len(ts)),
          totalCommissions |-> SumSeq([i \in 1..Len(ts) |-> ts[i].commission]),
          calmarRatio |-> calmarRatio(annualizedReturn, maxDrawdownPercent),
          sortinoRatio |-> RiskAdjusted(downsideVolatilityPositive)]

-----------------------------------------------------------------------------
(* calculatePerformanceStats: the streak counters.  bestMonth, worstMonth, *)
(* positiveMonths and negativeMonths are computed from calendar months,    *)
(* which the model does not have, and are left out.                        *)

\* the loop `for (const trade of trades)` from trade number i; acc carries
\* the four counters
RECURSIVE StreaksFrom(_, _, _)
StreaksFrom(ts, i, acc) ==
    IF i > Len(ts) THEN acc
    ELSE StreaksFrom(ts, i + 1,
           IF ts[i].profit > 0
           THEN [acc EXCEPT !.currentWinStreak = @ + 1,
                            !.currentLossStreak = 0,
                            !.maxConsecutiveWins = Max(@, acc.currentWinStreak + 1)]
           ELSE IF ts[i].profit < 0
           THEN [acc EXCEPT !.currentLossStreak = @ + 1,
                            !.currentWinStreak = 0,
                            !.maxConsecutiveLosses = Max(@, acc.currentLossStreak + 1)]
           ELSE acc)

calculatePerformanceStats(ts) ==
    LET counters == StreaksFrom(ts, 1,
                        [maxConsecutiveWins |-> 0, maxConsecutiveLosses |-> 0,
                         currentWinStreak |-> 0, currentLossStreak |-> 0])
    IN [maxConsecutiveWins |-> counters.maxConsecutiveWins,
        maxConsecutiveLosses |-> counters.maxConsecutiveLosses]

\* the oldest bar of the symbol (the sort in ascending order)
FirstData(data, symbol) == data[symbol][1]

\* the newest bar of the symbol:
\* `.sort((a, b) => b.timestamp.getTime() - a.timestamp.getTime())[0]`
FinalData(data, symbol) == data[symbol][Len(data[symbol])]

\* `positions.map(pos => this.closePosition(pos, finalData.close, endDate, ...))`
FinalClosedTrades(ps, data, p) ==
    [i \in 1..Len(ps) |->
        closePosition(ps[i], Price(FinalData(data, ps[i].symbol).close),
                      p.endDate, "END_OF_PERIOD", p)]

\* After the loop: close the remaining positions and return
Finish ==
    /\ pc = "loop"
    /\ dayIdx > DaysOf(parameters)
    /\ trades' = trades \o FinalClosedTrades(positions, historicalData, parameters)
    /\ resultMetrics' = calculateMetrics(trades', equityCurve, parameters)
    /\ performanceStats' = calculatePerformanceStats(trades')
    /\ pc' = "done"
    /\ UNCHANGED <<parameters, historicalData, dayIdx, currentCapital, positions,
                   equityCurve, firstRun>>
    /\ UNCHANGED <<apiVars, riskVars>>

\* A second call of runBacktest with the parameters of the first
RunAgain ==
    /\ pc = "done"
    /\ firstRun = NoRun
    /\ firstRun' = [trades |-> trades, equityCurve |-> equityCurve]
    /\ pc' = "loop"
    /\ historicalData' = [sym \in DOMAIN historicalData |-> <<>>]
    /\ dayIdx' = 0
    /\ currentCapital' = parameters.initialCapital * Unit
    /\ positions' = <<>>
    /\ trades' = <<>>
    /\ equityCurve' = <<>>
    /\ resultMetrics' = Null
    /\ performanceStats' = Null
    /\ UNCHANGED parameters
    /\ UNCHANGED <<apiVars, riskVars>>

-----------------------------------------------------------------------------
(* Parameter ranges (optimize/route.ts, generateParameterCombinations)     *)
(*                                                                         *)
(* min, max and step are decimal literals with at most one fractional      *)
(* digit, counted in tenths.  Whole numbers of this size are exact in an   *)
(* IEEE double, so their sums and quotients are exact.  The literals 0.1,  *)
(* 0.2, ..., 0.7 are not: the two sets below record how the double         *)
(* operations of the code round on them.                                   *)

One == 10

\* k with fl(k/10) / fl(0.1) < k :  0.3/0.1, 0.6/0.1 and 0.7/0.1 evaluate to
\* 2.9999999999999996, 5.999999999999999 and 6.999999999999999
QuotientBelow == {3, 6, 7}

\* k for which 0.1 added k times to 0 exceeds fl(k/10) :
\* 0.1 + 0.1 + 0.1 = 0.30000000000000004
SumAbove == {3}

\* the largest k for which the two sets are complete
MaxTenthLiteral == 7

IsWhole(range) ==
    range.min % One = 0 /\ range.max % One = 0 /\ range.step % One = 0

IsTenths(range) ==
    range.min = 0 /\ range.step = 1 /\ range.max \in 0..MaxTenthLiteral

\* `Math.floor((range.max - range.min) / range.step) + 1`
Steps(range) ==
    LET width == range.max - range.min
    IN IF IsWhole(range) THEN (width \div range.step) + 1
       ELSE IF width \in QuotientBelow THEN (width - 1) + 1
       ELSE width + 1

\* `value` after j executions of `value += range.step`, as the literal it
\* is nearest to and the sign of its distance from that literal
LoopValue(range, j) ==
    [tenths |-> range.min + j * range.step,
     excess |-> IF ~IsWhole(range) /\ j \in SumAbove THEN 1 ELSE 0]

\* `value <= range.max`
LoopTest(value, range) ==
    \/ value.tenths < range.max
    \/ value.tenths = range.max /\ value.excess <= 0

RECURSIVE RangeValuesFrom(_, _)
\* `for (let value = range.min; value <= range.max; value += range.step)`
RangeValuesFrom(range, j) ==
    LET value == LoopValue(range, j)
    IN IF LoopTest(value, range)
       THEN <<value>> \o RangeValuesFrom(range, j + 1)
       ELSE <<>>

RECURSIVE generateCombinations(_, _, _)
RECURSIVE CombinationsOver(_, _, _, _)
\* the body of the `for` loop, for the values still to visit
CombinationsOver(ranges, index, current, values) ==
    IF values = <<>> THEN <<>>
    ELSE generateCombinations(ranges, index + 1, Append(current, Head(values)))
         \o CombinationsOver(ranges, index, current, Tail(values))

\* a combination is the sequence of its values in Object.keys(ranges) order
generateCombinations(ranges, index, current) ==
    IF index > Len(ranges) THEN << current >>
    ELSE CombinationsOver(ranges, index, current,
                          RangeValuesFrom(ranges[index], 0))

generateParameterCombinations(ranges) == generateCombinations(ranges, 1, <<>>)

RECURSIVE totalCombinationsFrom(_, _)
totalCombinationsFrom(ranges, i) ==
    IF i > Len(ranges) THEN 1
    ELSE Steps(ranges[i]) * totalCombinationsFrom(ranges, i + 1)

\* `Object.values(parameterRanges).reduce((total, range) => total * steps, 1)`
totalCombinations(ranges) == totalCombinationsFrom(ranges, 1)

-----------------------------------------------------------------------------
(* optimizeStrategy *)

\* BacktestMetrics in 1/Scale: the four objectives and the trade count
Scale == 100 * 100

\* getEmptyMetrics()
EmptyMetrics ==
    [sharpeRatio |-> 0, totalReturn |-> 0, profitFactor |-> 0,
     calmarRatio |-> 0, totalTrades |-> 0]

\* metrics a run with trades can report
ScoredMetrics ==
    { [sharpeRatio |-> 12344, totalReturn |-> 5001234, profitFactor |-> 15033,
       calmarRatio |-> 20012, totalTrades |-> 4],
      [sharpeRatio |-> 8012, totalReturn |-> 9004321, profitFactor |-> 22041,
       calmarRatio |-> 5003, totalTrades |-> 7],
      [sharpeRatio |-> -5021, totalReturn |-> -3001234, profitFactor |-> 5012,
       calmarRatio |-> -10021, totalTrades |-> 3] }

MetricsChoices == {EmptyMetrics} \cup ScoredMetrics

\* the runs of one optimization that trade: at most the first ScoredRuns
ScoredRuns == 2

Outcomes == [1..ScoredRuns -> MetricsChoices]

\* `result.metrics` of the i-th call of runBacktest
RunMetrics(outcome, i) ==
    IF i \in DOMAIN outcome THEN outcome[i] ELSE EmptyMetrics

\* `optimizationResults.push({ parameters: params, metrics: result.metrics })`
\* for every combination, one runBacktest each
ResultsOf(combinations, outcome) ==
    [i \in 1..Len(combinations) |->
        [parameters |-> combinations[i], metrics |-> RunMetrics(outcome, i)]]

RECURSIVE BestFrom(_, _, _)
\* `if (!bestMetrics || result.metrics.sharpeRatio > bestMetrics.sharpeRatio)`
\* over the loop: best is the index of the result held in bestMetrics, 0 for
\* null
BestFrom(results, i, best) ==
    IF i > Len(results) THEN best
    ELSE IF best = 0
            \/ results[i].metrics.sharpeRatio > results[best].metrics.sharpeRatio
         THEN BestFrom(results, i + 1, i)
         ELSE BestFrom(results, i + 1, best)

optimizeStrategy(baseStrategy, parameterRanges, outcome) ==
    LET results == ResultsOf(generateParameterCombinations(parameterRanges), outcome)
        best    == BestFrom(results, 1, 0)
    IN [optimizationResults |-> results,
        bestMetrics  |-> IF best = 0 THEN Null ELSE results[best].metrics,
        bestStrategy |-> IF best = 0 THEN baseStrategy
                         ELSE [parameters |-> baseStrategy.parameters
                                              \o results[best].parameters]]

-----------------------------------------------------------------------------
(* HTTP entry points *)

maxCombinations == 100
topCount == 20
minOptimizeDays == 60
maxOptimizeDays == 730
minBacktestDays == 30
maxBacktestDays == 1095
maxInitialCapital == 10000000
maxOptimizeSymbols == 10
maxBacktestSymbols == 20

\* Request contents
Sessions == BOOLEAN
ApiStartDate == 0
ApiSpans == {-2, 0, 59, 60, 119, 120, 1460, 1461, 2190, 2191}
ApiCapitals == {0, 10000, 20000000}
ApiSymbolLists == { <<>>, <<"AAA">> }
StrategyIds == {"none", "missing", "foreign", "own"}
Objectives == {"sharpeRatio", "totalReturn", "profitFactor", "calmarRatio"}

ParameterRangeChoices ==
    LET R5     == [min |-> 10, max |-> 50,  step |-> 10]
        R11    == [min |-> 0,  max |-> 100, step |-> 10]
        R15    == [min |-> 10, max |-> 150, step |-> 10]
        Rempty == [min |-> 50, max |-> 10,  step |-> 10]
        Rsix   == [min |-> 0,  max |-> 6,   step |-> 1]
        Rthree == [min |-> 0,  max |-> 3,   step |-> 1]
        Rzero  == [min |-> 10, max |-> 50,  step |-> 0]
    IN { <<>>, <<R5>>, <<R5, R5>>, <<R11, R5>>, <<R11, R11>>, <<Rempty, R5>>,
         <<Rsix, R15>>, <<Rthree>>, <<Rzero>> }

\* an optional field that is absent is the empty sequence of values
OptionalSymbolLists == { <<>>, << <<>> >>, << <<"AAA">> >> }
OptionalSymbols == { <<>>, <<"AAA">> }

RunRequests ==
    { [route |-> "run", session |-> se, strategyId |-> id, strategy |-> st,
       startDate |-> ApiStartDate, endDate |-> ApiStartDate + span,
       initialCapital |-> cap, symbols |-> syms] :
        se \in Sessions, id \in StrategyIds, st \in BOOLEAN, span \in ApiSpans,
        cap \in ApiCapitals, syms \in ApiSymbolLists }

StrategyBacktestRequests ==
    { [route |-> "strategy", session |-> se, strategyId |-> id,
       startDate |-> ApiStartDate, endDate |-> ApiStartDate + span,
       initialCapital |-> cap, symbols |-> syms, symbol |-> sym] :
        se \in Sessions, id \in StrategyIds \ {"none"}, span \in ApiSpans,
        cap \in ApiCapitals, syms \in OptionalSymbolLists,
        sym \in OptionalSymbols }

OptimizeRequests ==
    { [route |-> "optimize", session |-> se, strategyId |-> id,
       startDate |-> ApiStartDate, endDate |-> ApiStartDate + span,
       initialCapital |-> cap, symbols |-> syms, parameterRanges |-> ranges,
       optimizationMetric |-> metric] :
        se \in Sessions, id \in StrategyIds \ {"none"}, span \in ApiSpans,
        cap \in ApiCapitals, syms \in ApiSymbolLists,
        ranges \in ParameterRangeChoices, metric \in Objectives }

\* `Number(x.toFixed(digits))` of a value that is no tie
ToFixed(x, digits) ==
    LET q == IF digits = 3 THEN Scale \div 1000
             ELSE IF digits = 2 THEN Scale \div 100
             ELSE Scale \div 10
    IN IF x >= 0 THEN ((x + q \div 2) \div q) * q
       ELSE -((((-x) + q \div 2) \div q) * q)

\* the rounded `metrics` object of a response
RoundedMetrics(metrics) ==
    [sharpeRatio  |-> ToFixed(metrics.sharpeRatio, 3),
     totalReturn  |-> ToFixed(metrics.totalReturn, 2),
     profitFactor |-> ToFixed(metrics.profitFactor, 2),
     calmarRatio  |-> ToFixed(metrics.calmarRatio, 3),
     totalTrades  |-> metrics.totalTrades]

\* `metrics[optimizationMetric]`
Objective(metrics, optimizationMetric) ==
    CASE optimizationMetric = "sharpeRatio"  -> metrics.sharpeRatio
      [] optimizationMetric = "totalReturn"  -> metrics.totalReturn
      [] optimizationMetric = "profitFactor" -> metrics.profitFactor
      [] optimizationMetric = "calmarRatio"  -> metrics.calmarRatio

\* bars of one runBacktest: generateHistoricalData makes bars 0..days for
\* every symbol and the loop visits each of them
BarsOf(startDate, endDate, symbols) ==
    LET days == CeilDiv(endDate - startDate, TicksPerDay)
    IN IF days < 0 THEN 0 ELSE (days + 1) * Len(symbols)

\* metrics one runBacktest can return: no signal before MinHistory bars
RunResults(startDate, endDate, symbols) ==
    IF BarsOf(startDate, endDate, symbols) >= MinHistory * Max(1, Len(symbols))
    THEN MetricsChoices
    ELSE {EmptyMetrics}

ApiIdle ==
    /\ request = Null
    /\ response = Null
    /\ optimizationResults = <<>>
    /\ backtestsRun = 0
    /\ barsProcessed = 0

\* a response returned before the engine is called
Rejected(req, status) ==
    /\ request' = req
    /\ response' = [status |-> status, success |-> FALSE, data |-> Null]
    /\ optimizationResults' = <<>>
    /\ backtestsRun' = 0
    /\ barsProcessed' = 0

\* the response of a route after one runBacktest
Completed(req, symbols) ==
    \E metrics \in RunResults(req.startDate, req.endDate, symbols) :
        /\ request' = req
        /\ response' = [status |-> 200, success |-> TRUE,
                        data |-> [metrics |-> RoundedMetrics(metrics)]]
        /\ optimizationResults' = <<>>
        /\ backtestsRun' = 1
        /\ barsProcessed' = BarsOf(req.startDate, req.endDate, symbols)

\* POST /api/backtest/run
RunPost ==
    /\ response = Null
    /\ \E req \in RunRequests :
         LET daysDifference == req.endDate - req.startDate
         IN IF ~req.session THEN Rejected(req, 401)
            ELSE IF ~(/\ req.initialCapital > 0
                      /\ req.initialCapital <= maxInitialCapital
                      /\ Len(req.symbols) >= 1
                      /\ Len(req.symbols) <= maxBacktestSymbols)
                 THEN Rejected(req, 400)
            ELSE IF req.strategyId = "missing" THEN Rejected(req, 404)
            ELSE IF req.strategyId = "foreign" THEN Rejected(req, 403)
            ELSE IF req.strategyId = "none" /\ ~req.strategy THEN Rejected(req, 400)
            ELSE IF req.startDate >= req.endDate THEN Rejected(req, 400)
            ELSE IF daysDifference > maxBacktestDays * TicksPerDay
                 THEN Rejected(req, 400)
            ELSE IF daysDifference < minBacktestDays * TicksPerDay
                 THEN Rejected(req, 400)
            ELSE Completed(req, req.symbols)
    /\ UNCHANGED <<btVars, riskVars>>

\* POST /api/strategies/[strategyId]/backtest
StrategyBacktestPost ==
    /\ response = Null
    /\ \E req \in StrategyBacktestRequests :
         IF ~req.session THEN Rejected(req, 401)
         ELSE IF ~(req.initialCapital > 0) THEN Rejected(req, 400)
         ELSE IF req.strategyId # "own" THEN Rejected(req, 404)
         ELSE \* `symbols || [symbol || 'SPY']`
              Completed(req, IF req.symbols # <<>> THEN req.symbols[1]
                             ELSE IF req.symbol # <<>> THEN req.symbol
                             ELSE <<"SPY">>)
    /\ UNCHANGED <<btVars, riskVars>>

\* the array in the order the engine produced it
unsortedResults(results, optimizationMetric) == results

\* `optimizationResults.sort((a, b) => bValue - aValue)`: descending by the
\* objective; Array.prototype.sort is stable, so elements of equal value keep
\* their order
sortedResults(results, optimizationMetric) ==
    SortSeq(results,
            LAMBDA a, b : Objective(a.metrics, optimizationMetric)
                            > Objective(b.metrics, optimizationMetric))

\* `sortedResults.slice(0, 20).map(...)`
topResults(sorted) ==
    [i \in 1..Min(topCount, Len(sorted)) |->
        [parameters |-> sorted[i].parameters,
         metrics |-> RoundedMetrics(sorted[i].metrics)]]

\* POST /api/backtest/optimize
OptimizePost ==
    /\ response = Null
    /\ \E req \in OptimizeRequests :
         LET daysDifference == req.endDate - req.startDate
             ranges == req.parameterRanges
         IN IF ~req.session THEN Rejected(req, 401)
            ELSE IF ~(/\ req.initialCapital > 0
                      /\ req.initialCapital <= maxInitialCapital
                      /\ Len(req.symbols) >= 1
                      /\ Len(req.symbols) <= maxOptimizeSymbols
                      /\ \A i \in 1..Len(ranges) : ranges[i].step > 0)
                 THEN Rejected(req, 400)
            ELSE IF req.strategyId = "missing" THEN Rejected(req, 404)
            ELSE IF req.strategyId = "foreign" THEN Rejected(req, 403)
            ELSE IF totalCombinations(ranges) > maxCombinations
                 THEN Rejected(req, 400)
            ELSE IF req.startDate >= req.endDate THEN Rejected(req, 400)
            ELSE IF daysDifference > maxOptimizeDays * TicksPerDay
                 THEN Rejected(req, 400)
            ELSE IF daysDifference < minOptimizeDays * TicksPerDay
                 THEN Rejected(req, 400)
            ELSE \E outcome \in Outcomes :
                 \E optimizationResult \in
                        {optimizeStrategy([parameters |-> <<>>], ranges, outcome)} :
                 \E sorted \in
                        {sortedResults(optimizationResult.optimizationResults,
                                       req.optimizationMetric)} :
                   /\ request' = req
                   /\ optimizationResults' = sorted
                   /\ backtestsRun' = Len(sorted)
                   /\ barsProcessed' =
                        Len(sorted) * BarsOf(req.startDate, req.endDate, req.symbols)
                   /\ response' =
                        IF optimizationResult.bestMetrics = Null
                        THEN \* `bestMetrics.totalReturn` throws: the catch block
                             [status |-> 500, success |-> FALSE, data |-> Null]
                        ELSE [status |-> 200, success |-> TRUE,
                              data |->
                                [totalCombinationsTested |-> Len(sorted),
                                 optimizationMetric |-> req.optimizationMetric,
                                 bestParameters |->
                                     optimizationResult.bestStrategy.parameters,
                                 bestMetrics |->
                                     RoundedMetrics(optimizationResult.bestMetrics),
                                 topResults |-> topResults(sorted)]]
    /\ UNCHANGED <<btVars, riskVars>>

-----------------------------------------------------------------------------
(* RiskManager (src/lib/risk-management.ts)                                *)
(*                                                                         *)
(* Prices and portfolio values are whole dollars, percentages whole        *)
(* percents, volatility and correlation hundredths; a stop-loss price is   *)
(* in 1/StopScale dollar.                                                  *)

StopScale == 1000

\* `private defaultParameters` as constructed (the fields the sizing reads)
InitialRiskParameters ==
    [maxPortfolioRisk |-> 2, maxPositionSize |-> 20, stopLossPercent |-> 5]

RiskIdle ==
    /\ defaultParameters = InitialRiskParameters
    /\ riskResult = Null

\* PositionSizingInput
SizingInputs ==
    [entryPrice : {100}, stopLossPrice : {90, 95, 99, 100},
     portfolioValue : {0, 100000},
     riskPerTrade : {0, 2}, userRiskTolerance : {"LOW", "MEDIUM", "HIGH"},
     volatility : {0, 20, 100, 400}, correlation : {0, 80}]

\* toleranceMultipliers, in halves
toleranceMultipliers(userRiskTolerance) ==
    CASE userRiskTolerance = "LOW"    -> 1
      [] userRiskTolerance = "MEDIUM" -> 2
      [] userRiskTolerance = "HIGH"   -> 3

\* `Math.max(0.5, Math.min(1.5, 1 / volatility))`
volatilityAdjustment(volatility) ==
    IF 200 >= 3 * volatility THEN [num |-> 3, den |-> 2]
    ELSE IF 200 <= volatility THEN [num |-> 1, den |-> 2]
    ELSE [num |-> 100, den |-> volatility]

\* share counts n <= 500, multiples of 10, for which the double n * 0.7 is
\* below 7n/10 (90 * 0.7 = 62.99999999999999)
SeventyPercentBelow == {90, 170, 180, 330, 340, 350, 360}

\* `Math.floor(finalShares * 0.7)`
CorrelationReduced(finalShares) ==
    IF finalShares \in SeventyPercentBelow THEN (finalShares * 7) \div 10 - 1
    ELSE (finalShares * 7) \div 10

\* 200 * riskAmount, riskAmount = portfolioValue * (adjustedRiskPerTrade / 100)
RiskAmount200(input) ==
    input.portfolioValue * input.riskPerTrade
        * toleranceMultipliers(input.userRiskTolerance)

\* riskAmount divided by the entry price instead of the price risk
BaseSharesOfEntryPrice(input) ==
    Exact(RiskAmount200(input) \div (200 * input.entryPrice), 1)

\* `Math.floor(riskAmount / priceRisk)`: x / 0 is Infinity for x > 0 and NaN
\* for x = 0, and Math.floor returns either unchanged
BaseShares(input) ==
    LET priceRisk == Abs(input.entryPrice - input.stopLossPrice)
    IN IF priceRisk > 0 THEN Exact(RiskAmount200(input) \div (200 * priceRisk), 1)
       ELSE IF RiskAmount200(input) > 0 THEN Infinity
       ELSE NaN

\* x * k for a double x and a whole k >= 0 (Infinity * 0 and NaN * k are NaN)
Times(x, k) ==
    IF x.class = "exact" THEN Exact(x.num * k, 1)
    ELSE IF x.class = "Infinity" /\ k > 0 THEN Infinity
    ELSE NaN

\* x > bound for a double x and the fraction bound (false for NaN)
Exceeds(x, bound) ==
    IF x.class = "exact" THEN x.num * bound.den > bound.num * x.den
    ELSE x.class = "Infinity"

calculatePositionSize(input, riskParameters) ==
    LET portfolioValue == input.portfolioValue
        entryPrice == input.entryPrice
        priceRisk == Abs(entryPrice - input.stopLossPrice)
        baseShares == BaseShares(input)
        adjustment == volatilityAdjustment(input.volatility)
        \* Math.floor(baseShares * volatilityAdjustment)
        adjustedShares ==
            IF baseShares.class = "exact"
            THEN Exact((baseShares.num * adjustment.num) \div adjustment.den, 1)
            ELSE baseShares
        adjustedValue == Times(adjustedShares, entryPrice)
        \* positionSizePercent > this.defaultParameters.maxPositionSize, where
        \* positionSizePercent = (adjustedValue / portfolioValue) * 100
        limited ==
            Exceeds(Times(adjustedValue, 100),
                    [num |-> riskParameters.maxPositionSize * portfolioValue,
                     den |-> 1])
        limitedShares ==
            IF limited
            THEN Exact((portfolioValue * riskParameters.maxPositionSize)
                           \div (100 * entryPrice), 1)
            ELSE adjustedShares
        correlated == input.correlation > 70
        finalShares ==
            IF correlated /\ limitedShares.class = "exact"
            THEN Exact(CorrelationReduced(limitedShares.num), 1)
            ELSE limitedShares
        finalValue == Times(finalShares, entryPrice)
        finalRiskAmount == Times(finalShares, priceRisk)
    IN [\* Math.max(0, finalShares): NaN for NaN
        recommendedShares |->
            IF finalShares.class = "exact" THEN Exact(Max(0, finalShares.num), 1)
            ELSE finalShares,
        recommendedValue |-> finalValue,
        riskAmount |-> finalRiskAmount,
        \* (finalRiskAmount / portfolioValue) * 100
        riskPercent |-> [num |-> Times(finalRiskAmount, 100), den |-> portfolioValue],
        \* (finalValue / portfolioValue) * 100
        positionSizePercent |-> [num |-> Times(finalValue, 100), den |-> portfolioValue],
        stopLossDistance |-> [num |-> priceRisk * 100, den |-> entryPrice],
        warnings |->
            (IF limited THEN <<"Position size reduced to limit">> ELSE <<>>)
            \o (IF correlated THEN <<"Position size reduced due to high correlation">>
                ELSE <<>>)
            \o (IF priceRisk * 100 > 10 * entryPrice
                THEN <<"Stop-loss distance is high">> ELSE <<>>)
            \o (IF Exceeds(Times(finalRiskAmount, 100),
                           [num |-> riskParameters.maxPortfolioRisk * portfolioValue,
                            den |-> 1])
                THEN <<"Risk per trade exceeds recommended limit">> ELSE <<>>)
            \o (IF input.volatility > 40 THEN <<"High volatility asset">> ELSE <<>>)]

CalculatePositionSize ==
    /\ \E input \in SizingInputs :
         riskResult' = [operation |-> "calculatePositionSize", input |-> input,
                        result |-> calculatePositionSize(input, defaultParameters)]
    /\ UNCHANGED defaultParameters
    /\ UNCHANGED <<btVars, apiVars>>

\* Partial<RiskParameters> passed to updateRiskParameters: the fields it
\* holds, as a sequence of field / value pairs
ParameterUpdates ==
    { << [field |-> "maxPositionSize", value |-> 10] >>,
      << [field |-> "maxPositionSize", value |-> 50] >>,
      << [field |-> "maxPortfolioRisk", value |-> 5] >> }

\* the value of `field` in `{ ...this.defaultParameters, ...params }`
Spread(riskParameters, params, field) ==
    LET given == SelectSeq(params, LAMBDA e : e.field = field)
    IN IF given = <<>> THEN riskParameters[field] ELSE given[Len(given)].value

\* `{ ...this.defaultParameters, ...params }`
Merged(riskParameters, params) ==
    [maxPortfolioRisk |-> Spread(riskParameters, params, "maxPortfolioRisk"),
     maxPositionSize  |-> Spread(riskParameters, params, "maxPositionSize"),
     stopLossPercent  |-> Spread(riskParameters, params, "stopLossPercent")]

UpdateRiskParameters ==
    /\ \E params \in ParameterUpdates :
         /\ defaultParameters' = Merged(defaultParameters, params)
         /\ riskResult' = [operation |-> "updateRiskParameters", input |-> params,
                           result |-> Null]
    /\ UNCHANGED <<btVars, apiVars>>

GetRiskParameters ==
    /\ riskResult' = [operation |-> "getRiskParameters", input |-> <<>>,
                      result |-> defaultParameters]
    /\ UNCHANGED defaultParameters
    /\ UNCHANGED <<btVars, apiVars>>

\* IPosition[] and the price / volatility maps
PositionChoices ==
    [symbol : {"AAA"}, status : {"OPEN", "CLOSED"}, quantity : {0, 10},
     avgCost : {0, 100}, currentPrice : {0, 90, 110}]

MarketPrices == {0, 80, 90, 97, 105, 130}
MarketVolatilities == {0, 4, 50}

StopLossInputs ==
    { [positions |-> <<p>>,
       currentPrices |-> [AAA |-> m, BBB |-> 0],
       marketVolatility |-> [AAA |-> v, BBB |-> 0]] :
        p \in PositionChoices, m \in MarketPrices, v \in MarketVolatilities }
    \cup
    { [positions |-> <<p, [p EXCEPT !.symbol = "BBB"]>>,
       currentPrices |-> [AAA |-> m, BBB |-> n],
       marketVolatility |-> [AAA |-> 0, BBB |-> 0]] :
        p \in {q \in PositionChoices : q.status = "OPEN" /\ q.quantity > 0},
        m \in MarketPrices, n \in MarketPrices }

\* the branch of the `if (pnlPercent > 20) ... else` chain taken, where
\* pnlPercent = ((currentPrice - avgCost) / avgCost) * 100 is Infinity for
\* avgCost = 0 < currentPrice and NaN for avgCost = 0 = currentPrice, and
\* every comparison with NaN is false
PnlRegime(currentPrice, avgCost) ==
    LET gain == (currentPrice - avgCost) * 100
    IN IF avgCost = 0 THEN (IF currentPrice > 0 THEN "TRAILING" ELSE "URGENT")
       ELSE IF gain > 20 * avgCost THEN "TRAILING"
       ELSE IF gain > 0 THEN "BREAKEVEN"
       ELSE IF gain > -5 * avgCost THEN "TIGHT"
       ELSE IF gain > -15 * avgCost THEN "EXIT"
       ELSE "URGENT"

\* the stop-loss price of the regime, before the clamp
RegimeStopLoss(regime, currentPrice, avgCost, volatility) ==
    CASE regime = "TRAILING"  ->
            currentPrice * (1000 - Max(50, 5 * volatility)) * (StopScale \div 1000)
      [] regime = "BREAKEVEN" -> avgCost * 101 * (StopScale \div 100)
      [] regime = "TIGHT"     ->
            avgCost * (100 - Min(8, volatility)) * (StopScale \div 100)
      [] regime = "EXIT"      -> currentPrice * 97 * (StopScale \div 100)
      [] regime = "URGENT"    -> currentPrice * 99 * (StopScale \div 100)

\* the urgencies with the moderate-loss branch rated like the small-loss one
RegimeUrgencyExitMedium(regime) ==
    CASE regime = "TRAILING"  -> "LOW"
      [] regime = "BREAKEVEN" -> "MEDIUM"
      [] regime = "TIGHT"     -> "MEDIUM"
      [] regime = "EXIT"      -> "MEDIUM"
      [] regime = "URGENT"    -> "CRITICAL"

RegimeUrgency(regime) ==
    CASE regime = "TRAILING"  -> "LOW"
      [] regime = "BREAKEVEN" -> "MEDIUM"
      [] regime = "TIGHT"     -> "MEDIUM"
      [] regime = "EXIT"      -> "HIGH"
      [] regime = "URGENT"    -> "CRITICAL"

urgencyOrder(urgency) ==
    CASE urgency = "CRITICAL" -> 4
      [] urgency = "HIGH"     -> 3
      [] urgency = "MEDIUM"   -> 2
      [] urgency = "LOW"      -> 1

\* `Math.min(suggestedStopLoss, currentPrice * 0.99)`
ClampedStopLoss(suggestedStopLoss, currentPrice) ==
    Min(suggestedStopLoss, currentPrice * 99 * (StopScale \div 100))

\* the body of `.map(position => ...)`
StopLossRecommendation(position, currentPrices, marketVolatility) ==
    LET \* `currentPrices[symbol] || position.currentPrice || position.avgCost`
        currentPrice ==
            IF currentPrices[position.symbol] # 0 THEN currentPrices[position.symbol]
            ELSE IF position.currentPrice # 0 THEN position.currentPrice
            ELSE position.avgCost
        \* `marketVolatility[symbol] || 0.2`
        volatility ==
            IF marketVolatility[position.symbol] # 0
            THEN marketVolatility[position.symbol] ELSE 20
        regime == PnlRegime(currentPrice, position.avgCost)
        suggestedStopLoss ==
            ClampedStopLoss(
                RegimeStopLoss(regime, currentPrice, position.avgCost, volatility),
                currentPrice)
    IN [symbol |-> position.symbol,
        currentPrice |-> currentPrice * StopScale,
        suggestedStopLoss |-> suggestedStopLoss,
        stopLossPercent |->
            [num |-> (currentPrice * StopScale - suggestedStopLoss) * 100,
             den |-> currentPrice * StopScale],
        riskAmount |-> position.quantity * (currentPrice * StopScale - suggestedStopLoss),
        reason |-> regime,
        urgency |-> RegimeUrgency(regime)]

calculateStopLossRecommendations(ps, currentPrices, marketVolatility) ==
    LET open == SelectSeq(ps, LAMBDA position :
                    position.status = "OPEN" /\ position.quantity > 0)
        recommendations ==
            [i \in 1..Len(open) |->
                StopLossRecommendation(open[i], currentPrices, marketVolatility)]
    IN SortSeq(recommendations,
               LAMBDA a, b : urgencyOrder(a.urgency) > urgencyOrder(b.urgency))

CalculateStopLossRecommendations ==
    /\ \E input \in StopLossInputs :
         riskResult' = [operation |-> "calculateStopLossRecommendations",
                        input |-> input,
                        result |-> calculateStopLossRecommendations(
                                       input.positions, input.currentPrices,
                                       input.marketVolatility)]
    /\ UNCHANGED defaultParameters
    /\ UNCHANGED <<btVars, apiVars>>

\* ITrade[]: the trades by their `performance?.profit || 0`, in dollars
MaxRiskTrades == 3
TradeProfits == {-1, 0, 1, 2}
RiskTradeLists == UNION { [1..n -> TradeProfits] : n \in 0..MaxRiskTrades }

\* x > y for two doubles (false when either is NaN)
GreaterThan(x, y) ==
    IF x.class = "NaN" \/ y.class = "NaN" THEN FALSE
    ELSE IF x.class = "Infinity" THEN y.class # "Infinity"
    ELSE IF y.class = "Infinity" THEN FALSE
    ELSE x.num * y.den > y.num * x.den

\* `(peak - runningTotal) / peak * 100`, with 0 <= peak and runningTotal <= peak
DrawdownPercent(peak, runningTotal) ==
    IF peak # 0 THEN Exact((peak - runningTotal) * 100, peak)
    ELSE IF runningTotal < 0 THEN Infinity
    ELSE NaN

\* the callback of `trades.forEach`, from trade number i
RECURSIVE MaxDrawdownFrom(_, _, _)
MaxDrawdownFrom(ts, i, acc) ==
    IF i > Len(ts) THEN acc
    ELSE
      LET runningTotal == acc.runningTotal + ts[i]
          peak == IF runningTotal > acc.peak THEN runningTotal ELSE acc.peak
          drawdown == DrawdownPercent(peak, runningTotal)
      IN MaxDrawdownFrom(ts, i + 1,
           [maxDrawdown |-> IF GreaterThan(drawdown, acc.maxDrawdown)
                            THEN drawdown ELSE acc.maxDrawdown,
            peak |-> peak,
            runningTotal |-> runningTotal])

calculateMaxDrawdown(ts) ==
    MaxDrawdownFrom(ts, 1,
        [maxDrawdown |-> Exact(0, 1), peak |-> 0, runningTotal |-> 0]).maxDrawdown

\* the maxDrawdown and the beta of the metrics; the other metrics are
\* computed from the trades and the positions without reading or changing
\* these two, and are left out
calculatePortfolioRisk(ts) ==
    [maxDrawdown |-> calculateMaxDrawdown(ts), beta |-> 1]

CalculatePortfolioRisk ==
    /\ \E ts \in RiskTradeLists :
         riskResult' = [operation |-> "calculatePortfolioRisk", input |-> ts,
                        result |-> calculatePortfolioRisk(ts)]
    /\ UNCHANGED defaultParameters
    /\ UNCHANGED <<btVars, apiVars>>

-----------------------------------------------------------------------------
(* Specifications *)

ParameterChoices(spans) ==
    { [strategy |-> "base", startDate |-> s, endDate |-> s + span,
       initialCapital |-> cap, symbols |-> syms, commission |-> c,
       slippage |-> sl, maxPositions |-> mp] :
        s \in StartDates, span \in spans, cap \in InitialCapitals,
        syms \in SymbolLists, c \in Commissions, sl \in Slippages,
        mp \in MaxPositionsChoices }

InitRun(spans) ==
    /\ parameters \in ParameterChoices(spans)
    /\ pc = "loop"
    /\ historicalData = [j \in {parameters.symbols[i] : i \in 1..Len(parameters.symbols)}
                            |-> <<>>]
    /\ dayIdx = 0
    /\ currentCapital = parameters.initialCapital * Unit
    /\ positions = <<>>
    /\ trades = <<>>
    /\ equityCurve = <<>>
    /\ resultMetrics = Null
    /\ performanceStats = Null
    /\ firstRun = NoRun
    /\ ApiIdle
    /\ RiskIdle

BtIdle ==
    /\ parameters = Null
    /\ pc = "idle"
    /\ historicalData = <<>>
    /\ dayIdx = 0
    /\ currentCapital = 0
    /\ positions = <<>>
    /\ trades = <<>>
    /\ equityCurve = <<>>
    /\ resultMetrics = Null
    /\ performanceStats = Null
    /\ firstRun = NoRun

Init == InitRun(Spans)

Next == RunDay \/ Finish

Spec == Init /\ [][Next]_vars


\* Two runs of runBacktest with the same parameters
RerunFreeDays == 2
RerunSpans == {TicksPerDay * (Len(Opening) + RerunFreeDays)}

InitRerun == InitRun(RerunSpans)

NextRerun == RunDay \/ Finish \/ RunAgain

SpecRerun == InitRerun /\ [][NextRerun]_vars

\* One request to one of the entry points
InitApi == BtIdle /\ ApiIdle /\ RiskIdle

NextApi == RunPost \/ StrategyBacktestPost \/ OptimizePost

SpecApi == InitApi /\ [][NextApi]_vars

\* Any sequence of the public operations of the risk manager
InitRisk == BtIdle /\ ApiIdle /\ RiskIdle

NextRisk ==
    \/ CalculatePositionSize
    \/ CalculateStopLossRecommendations
    \/ UpdateRiskParameters
    \/ GetRiskParameters
    \/ CalculatePortfolioRisk

SpecRisk == InitRisk /\ [][NextRisk]_vars

\* A run over two symbols whose prices make the same opening moves, so that
\* both emit BUY on the same day
PortfolioFreeDays == 2
PortfolioSymbols == <<"AAA", "BBB">>

PortfolioParameters ==
    { [p EXCEPT !.symbols = PortfolioSymbols] :
        p \in ParameterChoices({TicksPerDay * (Len(Opening) + PortfolioFreeDays)}) }

InitPortfolio ==
    /\ parameters \in PortfolioParameters
    /\ pc = "loop"
    /\ historicalData = [j \in {parameters.symbols[i] : i \in 1..Len(parameters.symbols)}
                            |-> <<>>]
    /\ dayIdx = 0
    /\ currentCapital = parameters.initialCapital * Unit
    /\ positions = <<>>
    /\ trades = <<>>
    /\ equityCurve = <<>>
    /\ resultMetrics = Null
    /\ performanceStats = Null
    /\ firstRun = NoRun
    /\ ApiIdle
    /\ RiskIdle

NextPortfolio == RunDay \/ Finish

SpecPortfolio == InitPortfolio /\ [][NextPortfolio]_vars

\* calculatePerformanceStats on any list of trades (of a list it reads the
\* profits only)
StatTrades == 4
StatProfits == {-Unit, 0, Unit}

RECURSIVE TradeListsOf(_)
TradeListsOf(n) ==
    IF n = 0 THEN { <<>> }
    ELSE { Append(ts, [profit |-> x]) : ts \in TradeListsOf(n - 1), x \in StatProfits }

TradeLists == UNION { TradeListsOf(n) : n \in 0..StatTrades }

InitStats ==
    /\ parameters = Null
    /\ pc = "stats"
    /\ historicalData = <<>>
    /\ dayIdx = 0
    /\ currentCapital = 0
    /\ positions = <<>>
    /\ trades \in TradeLists
    /\ equityCurve = <<>>
    /\ resultMetrics = Null
    /\ performanceStats = Null
    /\ firstRun = NoRun
    /\ ApiIdle
    /\ RiskIdle

CalculatePerformanceStats ==
    /\ pc = "stats"
    /\ performanceStats' = calculatePerformanceStats(trades)
    /\ pc' = "done"
    /\ UNCHANGED <<parameters, historicalData, dayIdx, currentCapital, positions,
                   trades, equityCurve, resultMetrics, firstRun>>
    /\ UNCHANGED <<apiVars, riskVars>>

NextStats == CalculatePerformanceStats

SpecStats == InitStats /\ [][NextStats]_vars

\* processExistingPositions on any bar: open positions, then days whose
\* high and low are drawn freely (generateHistoricalData keeps a bar within
\* 1% of its close; the function itself takes any bar)
ExitDays == 2
ExitEntryCloses == {200, 210}
ExitLows == {189, 190, 191, 198}
ExitHighs == {200, 229, 230, 231, 245}

ExitBars(p, i) ==
    { [timestamp |-> BarTime(p, i), symbol |-> "AAA",
       high |-> h, low |-> l, close |-> 200] : h \in ExitHighs, l \in ExitLows }

\* the position executeEntry opens on bar i, closing at `close`
OpenedAt(p, close, i) ==
    executeEntry(Null,
                 [timestamp |-> BarTime(p, i), symbol |-> "AAA",
                  high |-> close, low |-> close, close |-> close],
                 p.initialCapital * Unit, p)

\* the exits read the slippage and the commission of the parameters only
ExitParameters ==
    { p \in ParameterChoices({TicksPerDay * (1 + ExitDays)}) :
        p.startDate = 0 /\ p.maxPositions = 10 }

InitExit ==
    /\ parameters \in ExitParameters
    /\ pc = "exits"
    /\ historicalData = [sym \in Symbols |-> <<>>]
    /\ dayIdx = 2
    /\ currentCapital = 0
    /\ positions \in
          { <<OpenedAt(parameters, c, 1)>> : c \in ExitEntryCloses }
          \cup { <<OpenedAt(parameters, c, 0), OpenedAt(parameters, d, 1)>> :
                    c \in ExitEntryCloses, d \in ExitEntryCloses }
    /\ trades = <<>>
    /\ equityCurve = <<>>
    /\ resultMetrics = Null
    /\ performanceStats = Null
    /\ firstRun = NoRun
    /\ ApiIdle
    /\ RiskIdle

\* one call of processExistingPositions, as runBacktest makes it each day
ProcessExistingPositions ==
    /\ pc = "exits"
    /\ dayIdx <= 1 + ExitDays
    /\ \E bar \in ExitBars(parameters, dayIdx) :
         LET exits == processExistingPositions(positions, <<bar>>, parameters)
         IN /\ historicalData' =
                  [historicalData EXCEPT ![bar.symbol] = Append(@, bar)]
            /\ trades' = trades \o exits.closedTrades
            /\ positions' = exits.remainingPositions
            /\ currentCapital' = currentCapital + exits.capitalFromClosedTrades
    /\ dayIdx' = dayIdx + 1
    /\ UNCHANGED <<parameters, pc, equityCurve, resultMetrics, performanceStats,
                   firstRun>>
    /\ UNCHANGED <<apiVars, riskVars>>

NextExit == ProcessExistingPositions

SpecExit == InitExit /\ [][NextExit]_vars

\* The ledger of runBacktest at a price level: the loop body on the days of a
\* run on which the symbol's signal is BUY, all bars closing at one level,
\* and then on a day whose low is under every stop.  The signal is given
\* instead of computed (generateTradingSignal reads neither the cash nor the
\* positions), and a level above the first close is one the generated price
\* reaches after enough rising days (the factor of a day is below 1.0202).
LedgerDays == 101
LedgerCloses == {270, 2100}
LedgerMaxPositions == 200

LedgerParameters ==
    { [p EXCEPT !.maxPositions = LedgerMaxPositions] :
        p \in { q \in ParameterChoices({TicksPerDay * (1 + LedgerDays)}) :
                  q.startDate = 0 /\ q.maxPositions = 10 } }

\* the closes a day of the ledger can have: the level of the run
LedgerLevels(data) ==
    IF Len(data["AAA"]) = 0 THEN LedgerCloses
    ELSE {data["AAA"][Len(data["AAA"])].close}

\* a bar at the level that touches no stop and no target
QuietBar(p, i, close) ==
    [timestamp |-> BarTime(p, i), symbol |-> "AAA",
     high |-> close, low |-> close, close |-> close]

\* a bar at the level whose low is under the stop of every open position
StopBar(p, i, close) ==
    [timestamp |-> BarTime(p, i), symbol |-> "AAA",
     high |-> close, low |-> (close * 9) \div 10, close |-> close]

\* the body of `for (const symbolData of dayData)` for a given signal
EntryOnSignal(signal, symbolData, p, acc) ==
    LET newPosition ==
            IF MayEnter(signal, acc.positions, p)
            THEN executeEntry(signal, symbolData, acc.currentCapital, p)
            ELSE Null
    IN IF newPosition = Null THEN acc
       ELSE [positions |-> Append(acc.positions, newPosition),
             currentCapital |-> acc.currentCapital - newPosition.value]

InitLedger ==
    /\ parameters \in LedgerParameters
    /\ pc = "ledger"
    /\ historicalData = [sym \in Symbols |-> <<>>]
    /\ dayIdx = 0
    /\ currentCapital = parameters.initialCapital * Unit
    /\ positions = <<>>
    /\ trades = <<>>
    /\ equityCurve = <<>>
    /\ resultMetrics = Null
    /\ performanceStats = Null
    /\ firstRun = NoRun
    /\ ApiIdle
    /\ RiskIdle

\* one iteration of `for (const dateStr of dates)` on `bar` with `signal`
LedgerDay(bar, signal) ==
    LET dayData == <<bar>>
        date    == DateOfKey(DateKey(bar.timestamp))
        exits   == processExistingPositions(positions, dayData, parameters)
        entered == EntryOnSignal(signal, bar, parameters,
                     [positions |-> exits.remainingPositions,
                      currentCapital |->
                         currentCapital + exits.capitalFromClosedTrades])
    IN /\ historicalData' = [historicalData EXCEPT ![bar.symbol] = Append(@, bar)]
       /\ trades' = trades \o exits.closedTrades
       /\ positions' = entered.positions
       /\ currentCapital' = entered.currentCapital
       /\ equityCurve' = Append(equityCurve,
              EquityPoint(parameters, date, entered.currentCapital,
                          entered.positions, dayData))
       /\ dayIdx' = dayIdx + 1
       /\ UNCHANGED <<parameters, resultMetrics, performanceStats, firstRun>>
       /\ UNCHANGED <<apiVars, riskVars>>

\* a day with a BUY signal
BuyDay ==
    /\ pc = "ledger"
    /\ dayIdx < LedgerDays
    /\ \E close \in LedgerLevels(historicalData) :
         LedgerDay(QuietBar(parameters, dayIdx, close), [type |-> "BUY"])
    /\ pc' = pc

\* the last day of the range: the stops are hit and the signal is HOLD
StopDay ==
    /\ pc = "ledger"
    /\ dayIdx > 0
    /\ \E close \in LedgerLevels(historicalData) :
         LedgerDay(StopBar(parameters, dayIdx, close), [type |-> "HOLD"])
    /\ pc' = "last"

NextLedger == BuyDay \/ StopDay

SpecLedger == InitLedger /\ [][NextLedger]_vars

-----------------------------------------------------------------------------
(* Properties of runBacktest *)

LastPoint == equityCurve[Len(equityCurve)]

\* the close, as a price, of `symbol` on the date of the newest EquityPoint
CloseOnLastDate(symbol) ==
    LET bar == CHOOSE b \in {historicalData[symbol][i] :
                               i \in 1..Len(historicalData[symbol])} :
                   DateOfKey(DateKey(b.timestamp)) = LastPoint.date
    IN Price(bar.close)

\* C1: at every EquityPoint appended by runBacktest, the recorded equity is
\* the cash left after that day's exits and entries plus, over the positions
\* still open, quantity times that day's close of the position's symbol.
\* (Each EquityPoint is the newest one in the state that follows its day.)
C1_EquityIsCashPlusOpenValue ==
    equityCurve # <<>> =>
        LastPoint.equity =
            currentCapital
            + SumSeq([i \in 1..Len(positions) |->
                        positions[i].quantity * CloseOnLastDate(positions[i].symbol)])

\* C1 witness: a day after which a position is open at a close different
\* from its entry price, with an exit already booked into the cash
C1_Witness ==
    /\ equityCurve # <<>>
    /\ trades # <<>>
    /\ \E i \in 1..Len(positions) :
          CloseOnLastDate(positions[i].symbol) # positions[i].entryPrice

RECURSIVE RunningPeak(_)
\* the highest equity among the initial capital and the points 1..i
RunningPeak(i) ==
    IF i = 0 THEN parameters.initialCapital * Unit
    ELSE Max(equityCurve[i].equity, RunningPeak(i - 1))

\* C2: each point's drawdown is >= 0 and is the running peak equity minus the
\* point's equity (so it is 0 exactly where equity is at a new running
\* maximum).
C2_DrawdownFromRunningPeak ==
    \A i \in 1..Len(equityCurve) :
        /\ equityCurve[i].drawdown >= 0
        /\ equityCurve[i].drawdown = RunningPeak(i) - equityCurve[i].equity

\* C3: for every ClosedTrade, exitDate >= entryDate and holdingPeriod is the
\* number of days from entryDate to exitDate (a started day counting as a day).
C3_HoldingPeriodIsDays ==
    \A i \in 1..Len(trades) :
        LET t == trades[i]
            held == t.exitDate - t.entryDate
        IN /\ t.exitDate >= t.entryDate
           /\ (t.holdingPeriod - 1) * TicksPerDay < held
           /\ held <= t.holdingPeriod * TicksPerDay

\* C10: two runs given identical inputs produce identical trade lists and
\* equity curves.
C10_RerunIdentical ==
    (pc = "done" /\ firstRun # NoRun) =>
        /\ trades = firstRun.trades
        /\ equityCurve = firstRun.equityCurve


-----------------------------------------------------------------------------
(* Properties of the HTTP entry points *)

\* the values min, min + step, ..., up to and including max, counted exactly
ExactCount(range) ==
    IF range.max < range.min THEN 0
    ELSE ((range.max - range.min) \div range.step) + 1

RECURSIVE ExactProductFrom(_, _)
ExactProductFrom(ranges, i) ==
    IF i > Len(ranges) THEN 1
    ELSE ExactCount(ranges[i]) * ExactProductFrom(ranges, i + 1)

\* size of the Cartesian product of the ranges
ExactProduct(ranges) == ExactProductFrom(ranges, 1)

\* the request was an optimization that passed the schema, the session and
\* the strategy lookup
OptimizationAnswered ==
    /\ request # Null
    /\ request.route = "optimize"
    /\ request.session
    /\ request.strategyId = "own"
    /\ request.initialCapital > 0
    /\ request.initialCapital <= maxInitialCapital
    /\ request.symbols # <<>>
    /\ \A i \in 1..Len(request.parameterRanges) : request.parameterRanges[i].step > 0

OptimizationSucceeded ==
    /\ request # Null
    /\ request.route = "optimize"
    /\ response.success

\* C4: for every optimization request the number of backtests run is the
\* size of the Cartesian product of the parameter ranges (each enumerated
\* from min to max inclusive by step), and a request whose product exceeds
\* 100 is rejected before any backtest is run.
C4_RunsEqualProductWithinCap ==
    OptimizationAnswered =>
        /\ response.status \in {200, 500} =>
               backtestsRun = ExactProduct(request.parameterRanges)
        /\ ExactProduct(request.parameterRanges) > maxCombinations =>
               backtestsRun = 0 /\ ~response.success

\* C5: for every optimization and every selected objective, the reported
\* best combination has a value of the selected objective that is maximal
\* among all combinations run.
C5_BestIsMaximalByObjective ==
    OptimizationSucceeded =>
        \A i \in 1..Len(optimizationResults) :
            Objective(response.data.bestMetrics, request.optimizationMetric)
              >= Objective(RoundedMetrics(optimizationResults[i].metrics),
                           request.optimizationMetric)

\* an optimization of 2 parameters with 5 steps each that succeeded
FiveByFive ==
    /\ OptimizationSucceeded
    /\ Len(request.parameterRanges) = 2
    /\ \A i \in 1..2 : ExactCount(request.parameterRanges[i]) = 5

RankedValue(i) ==
    Objective(response.data.topResults[i].metrics, request.optimizationMetric)

BadConfiguration ==
    LET span    == request.endDate - request.startDate
        minDays == IF request.route = "optimize" THEN minOptimizeDays
                   ELSE minBacktestDays
        maxDays == IF request.route = "optimize" THEN maxOptimizeDays
                   ELSE maxBacktestDays
    IN \/ request.startDate >= request.endDate
       \/ span < minDays * TicksPerDay
       \/ span > maxDays * TicksPerDay
       \/ request.initialCapital <= 0

\* C9: every backtest entry point rejects, before any simulation work (no
\* bar processed, no successful result), a request whose start date is not
\* before its end date, whose range is outside the allowed bounds, or whose
\* initial capital is not positive.
C9_BadConfigurationRejected ==
    (request # Null /\ BadConfiguration) =>
        /\ ~response.success
        /\ barsProcessed = 0
        /\ backtestsRun = 0


-----------------------------------------------------------------------------
(* Properties of the risk manager *)

\* C7: in every state reachable by any sequence of the public operations,
\* for every input with positive entry price and portfolio value,
\* calculatePositionSize returns a recommendedValue of at most 20% of
\* portfolioValue.
C7_ValueWithinTwentyPercent ==
    (/\ riskResult # Null
     /\ riskResult.operation = "calculatePositionSize"
     /\ riskResult.input.entryPrice > 0
     /\ riskResult.input.portfolioValue > 0) =>
        ~Exceeds(Times(riskResult.result.recommendedValue, 100),
                 [num |-> 20 * riskResult.input.portfolioValue, den |-> 1])

\* C8: for every open long position with quantity > 0 and every current
\* price and volatility, fallbacks of the current price included, the
\* suggestedStopLoss is strictly below the currentPrice of the same
\* recommendation.
C8_StopBelowCurrentPrice ==
    (/\ riskResult # Null
     /\ riskResult.operation = "calculateStopLossRecommendations") =>
        \A i \in 1..Len(riskResult.result) :
            riskResult.result[i].suggestedStopLoss < riskResult.result[i].currentPrice


\* C11: calculatePositionSize is pure.  Whatever operations of the risk
\* manager ran before a call, the call returns what the same input returns
\* from a manager on which nothing ran before (so any two calls with equal
\* inputs return equal results), and no call of calculatePositionSize or
\* calculateStopLossRecommendations changes the risk manager's state.
C11_SizingIsPure ==
    [][ /\ riskResult'.operation = "calculatePositionSize" =>
              riskResult'.result =
                  calculatePositionSize(riskResult'.input, InitialRiskParameters)
        /\ riskResult'.operation \in
              {"calculatePositionSize", "calculateStopLossRecommendations"} =>
              defaultParameters' = defaultParameters ]_vars

-----------------------------------------------------------------------------
(* Properties of calculateMetrics *)

IsNumber(x) == x.class \in {"exact", "finite"}

\* C12: in the metrics of every run returned, the four ratios are numbers
\* (not NaN, not infinite), the sharpeRatio is 0 when the volatility is 0,
\* the sortinoRatio is 0 when the downside returns have no deviation, the
\* calmarRatio is 0 when maxDrawdownPercent is 0 and the profitFactor is 0
\* when there are no losing trades.
C12_RatiosZeroOnZeroDenominator ==
    pc = "done" =>
        /\ IsNumber(resultMetrics.sharpeRatio)
        /\ IsNumber(resultMetrics.sortinoRatio)
        /\ IsNumber(resultMetrics.calmarRatio)
        /\ IsNumber(resultMetrics.profitFactor)
        /\ IsZero(resultMetrics.volatility) => IsZero(resultMetrics.sharpeRatio)
        /\ ~VolatilityPositive(SelectSeq(DailyReturns(equityCurve),
                                         LAMBDA r : r.num < 0)) =>
               IsZero(resultMetrics.sortinoRatio)
        /\ IsZero(resultMetrics.maxDrawdownPercent) =>
               IsZero(resultMetrics.calmarRatio)
        /\ resultMetrics.losingTrades = 0 => IsZero(resultMetrics.profitFactor)

\* C12 witness: a run returned with winning trades and no losing trade (the
\* quotient averageWin / averageLoss would be a division by 0), and an
\* equity curve that never fell below the initial capital
C12_Witness ==
    /\ pc = "done"
    /\ resultMetrics.winningTrades > 0
    /\ resultMetrics.losingTrades = 0
    /\ resultMetrics.averageWin.num > 0
    /\ IsZero(resultMetrics.maxDrawdownPercent)

-----------------------------------------------------------------------------
(* Properties of the signal and entry loop *)

\* the entry dates of the positions opened so far in `symbol`, open or closed
EntryDates(symbol) ==
    { positions[i].entryDate : i \in {j \in 1..Len(positions) :
                                        positions[j].symbol = symbol} }
    \cup { trades[i].entryDate : i \in {j \in 1..Len(trades) :
                                          trades[j].symbol = symbol} }

\* C13: on a history of fewer than 20 bars of a symbol the signal generator
\* returns HOLD with strength 0 and the reasoning "Insufficient historical
\* data", and no position in a symbol is opened before the symbol's 20th bar.
C13_NoEntryBeforeTwentiethBar ==
    \A symbol \in DOMAIN historicalData :
        LET bars == historicalData[symbol]
        IN /\ \A k \in 1..Min(Len(bars), 19) :
                 LET signal == generateTradingSignal(bars[k], parameters.strategy,
                                                     SubSeq(bars, 1, k))
                 IN /\ signal.type = "HOLD"
                    /\ signal.strength.num = 0
                    /\ signal.reasoning = "Insufficient historical data"
           /\ \A entryDate \in EntryDates(symbol) :
                 /\ Len(bars) >= 20
                 /\ entryDate >= bars[20].timestamp

\* C13 witness: a position opened on the 20th bar of its symbol
C13_Witness ==
    \E symbol \in DOMAIN historicalData :
        /\ Len(historicalData[symbol]) >= 20
        /\ historicalData[symbol][20].timestamp \in EntryDates(symbol)

\* the input entry 100, stop 95, portfolio value 100000, risk per trade 2%,
\* MEDIUM tolerance, default volatility 0.2 and default correlation 0
SizingScenario ==
    [entryPrice |-> 100, stopLossPrice |-> 95, portfolioValue |-> 100000,
     riskPerTrade |-> 2, userRiskTolerance |-> "MEDIUM", volatility |-> 20,
     correlation |-> 0]

\* C14: for the input SizingScenario the sizing computes the risk amount
\* 2000 and the base share count 400, before the volatility adjustment and
\* the position size limit.
C14_ScenarioBaseShares ==
    (/\ riskResult # Null
     /\ riskResult.operation = "calculatePositionSize"
     /\ riskResult.input = SizingScenario) =>
        /\ RiskAmount200(riskResult.input) = 200 * 2000
        /\ BaseShares(riskResult.input) = Exact(400, 1)

\* C14 witness: calculatePositionSize was called with SizingScenario (and,
\* after the adjustment and the 20% limit, recommended 200 shares)
C14_Witness ==
    /\ riskResult # Null
    /\ riskResult.operation = "calculatePositionSize"
    /\ riskResult.input = SizingScenario
    /\ riskResult.result.recommendedShares = Exact(200, 1)

\* C15: for every input, entry price equal to stop price, zero risk per
\* trade, zero volatility and zero portfolio value included,
\* calculatePositionSize returns recommendedShares and recommendedValue that
\* are finite and not negative.
C15_SharesAndValueFinite ==
    (/\ riskResult # Null
     /\ riskResult.operation = "calculatePositionSize") =>
        /\ riskResult.result.recommendedShares.class = "exact"
        /\ riskResult.result.recommendedShares.num >= 0
        /\ riskResult.result.recommendedValue.class = "exact"
        /\ riskResult.result.recommendedValue.num >= 0

-----------------------------------------------------------------------------
(* Properties of the position lifecycle *)

\* what identifies an entry: runBacktest opens at most one position per
\* symbol and day
EntryOf(x) == <<x.symbol, x.entryDate>>

EntriesOf(s) == { EntryOf(s[i]) : i \in 1..Len(s) }

\* the close of the newest bar of `symbol`, after exit slippage
LastCloseSlipped(symbol) ==
    LET bars == historicalData[symbol]
    IN (Price(bars[Len(bars)].close) * (100 - parameters.slippage)) \div 100

\* at the return of runBacktest every entry has exactly one trade, and the
\* positions open after the last day were closed with END_OF_PERIOD at the
\* last close of their symbol
AllClosedAtReturn ==
    pc = "done" =>
        /\ Cardinality(EntriesOf(trades)) = Len(trades)
        /\ \A i \in 1..Len(positions) :
              \E j \in 1..Len(trades) :
                 /\ EntryOf(trades[j]) = EntryOf(positions[i])
                 /\ trades[j].reason = "END_OF_PERIOD"
                 /\ trades[j].quantity = positions[i].quantity
                 /\ trades[j].exitPrice = LastCloseSlipped(positions[i].symbol)

\* a step of the run loses no entry: a position open before the step is
\* open after it or has a trade, and a trade stays a trade
NoEntryLost ==
    /\ EntriesOf(positions) \subseteq EntriesOf(positions') \cup EntriesOf(trades')
    /\ EntriesOf(trades) \subseteq EntriesOf(trades')
    /\ pc' = "done" => EntriesOf(positions) \subseteq EntriesOf(trades')
    /\ Cardinality(EntriesOf(trades')) = Len(trades')

\* C16: every position opened during a run becomes exactly one trade: no
\* step loses an entry, at the return every entry has one trade and no
\* position is left without one, and each position still open after the
\* last simulated day is closed with reason END_OF_PERIOD at the last
\* available close of its symbol, exit slippage applied.
C16_EveryPositionBecomesOneTrade ==
    []AllClosedAtReturn /\ [][NoEntryLost]_vars

\* C16 witness: a run returned that closed one position during the loop and
\* another one, at a price changed by slippage, in the end-of-period sweep
C16_Witness ==
    /\ pc = "done"
    /\ Len(positions) > 0
    /\ Len(trades) > Len(positions)
    /\ parameters.slippage > 0

\* the bar processExistingPositions was called with in the step
DayBar(symbol) == historicalData'[symbol][Len(historicalData'[symbol])]

\* the trades the step appended
ClosedInStep == SubSeq(trades', Len(trades) + 1, Len(trades'))

\* the step closed `position` with `reason` at `price` (the trade records
\* the price after exit slippage)
ClosedWith(position, reason, price) ==
    \E j \in 1..Len(ClosedInStep) :
        /\ EntryOf(ClosedInStep[j]) = EntryOf(position)
        /\ ClosedInStep[j].quantity = position.quantity
        /\ ClosedInStep[j].reason = reason
        /\ ClosedInStep[j].exitPrice * 100 = price * (100 - parameters.slippage)

StaysOpen(position) ==
    /\ \E j \in 1..Len(positions') : positions'[j] = position
    /\ \A j \in 1..Len(ClosedInStep) :
          ClosedInStep[j].entryDate # position.entryDate

ExitPriority ==
    \A i \in 1..Len(positions) :
        LET position == positions[i]
            bar == DayBar(position.symbol)
            stopped == Price(bar.low) <= position.stopLoss
            taken == Price(bar.high) >= position.takeProfit
        IN /\ stopped => ClosedWith(position, "STOP_LOSS", position.stopLoss)
           /\ (taken /\ ~stopped) =>
                 ClosedWith(position, "TAKE_PROFIT", position.takeProfit)
           /\ (~taken /\ ~stopped) => StaysOpen(position)
           /\ (stopped \/ taken) =>
                 \A j \in 1..Len(positions') : positions'[j] # position

\* C17: in one evaluation of the exits, a position whose stop-loss is
\* reached by the day's low is closed at the stop-loss price with reason
\* STOP_LOSS, also when the day's high reaches its take-profit; it is closed
\* with TAKE_PROFIT at the take-profit price only when the low is above the
\* stop-loss; it stays open, unchanged, when neither level is reached.
C17_StopLossBeforeTakeProfit ==
    [][pc = "exits" => ExitPriority]_vars

\* C17 witness: a day reached both levels of a position, and the position
\* was closed with STOP_LOSS
C17_Witness ==
    /\ pc = "exits"
    /\ \E j \in 1..Len(trades) :
          LET bars == historicalData[trades[j].symbol]
          IN /\ trades[j].reason = "STOP_LOSS"
             /\ \E k \in 1..Len(bars) :
                   /\ bars[k].timestamp = trades[j].exitDate
                   /\ Price(bars[k].high) * 100 >= trades[j].entryPrice * 115
                   /\ Price(bars[k].low) * 100 <= trades[j].entryPrice * 95

\* the signal runBacktest computed for `symbol` on the newest date
SignalOnLastDate(symbol) ==
    LET bars == historicalData[symbol]
        bar == bars[Len(bars)]
    IN generateTradingSignal(bar, parameters.strategy,
           HistoryUpTo(historicalData, symbol,
                       DateOfKey(DateKey(bar.timestamp))))

\* C18: at every point of every run the number of open positions is at most
\* maxPositions, also on a day on which several symbols emit BUY.
C18_OpenPositionsWithinMaxPositions ==
    pc \in {"loop", "done"} => Len(positions) <= parameters.maxPositions

\* C18 witness: a day on which two symbols emitted BUY, after which
\* maxPositions = 1 position is open
C18_Witness ==
    /\ pc = "loop"
    /\ dayIdx > 0
    /\ parameters.maxPositions = 1
    /\ Len(positions) = 1
    /\ positions[1].entryDate = BarTime(parameters, dayIdx - 1)
    /\ \A symbol \in DOMAIN historicalData : SignalOnLastDate(symbol).type = "BUY"
    /\ Cardinality(DOMAIN historicalData) = 2

\* the positions opened on the newest date
OpenedOnLastDate ==
    { i \in 1..Len(positions) :
        /\ Len(historicalData[positions[i].symbol]) > 0
        /\ positions[i].entryDate =
              historicalData[positions[i].symbol]
                  [Len(historicalData[positions[i].symbol])].timestamp }

\* C19: for every position executeEntry opens, the value deducted from the
\* cash (quantity times the slipped entry price, plus the commission) is at
\* most 10% of the cash available at the entry, at most 20% of the initial
\* capital and at most the available cash.  (With one symbol a day opens at
\* most one position, and the cash available at its entry is the cash left
\* plus the value deducted.)
C19_CommittedValueWithinLimits ==
    (pc = "loop" /\ Len(parameters.symbols) = 1) =>
        \A i \in OpenedOnLastDate :
            LET value == positions[i].value
                availableCapital == currentCapital + value
            IN /\ value = positions[i].quantity * positions[i].entryPrice
                            + parameters.commission * Unit
               /\ 10 * value <= availableCapital
               /\ 10 * value <= 2 * parameters.initialCapital * Unit
               /\ value <= availableCapital

\* the history runBacktest passed to generateTradingSignal for `symbol` on
\* the newest date
HistoryOnLastDate(symbol) ==
    LET bars == historicalData[symbol]
    IN HistoryUpTo(historicalData, symbol,
                   DateOfKey(DateKey(bars[Len(bars)].timestamp)))

\* C20: on every simulated day, for a range that starts at midnight UTC or
\* at any other time of day, the history passed to the signal generator for
\* a symbol is the sequence of all bars of the symbol up to and including
\* the bar of the current day, oldest first.
C20_HistoryIncludesCurrentBar ==
    (pc = "loop" /\ dayIdx > 0) =>
        \A symbol \in DOMAIN historicalData :
            HistoryOnLastDate(symbol) = historicalData[symbol]

-----------------------------------------------------------------------------
(* Properties of generateTradingSignal *)

\* the sum of the `period` closes of `hist` that end `back` bars before the
\* newest one
WindowSum(hist, period, back) ==
    SumSeq([i \in 1..period |-> hist[Len(hist) - back - period + i].close])

\* the crossover rule on full windows: the 10-bar and the 20-bar average on
\* the newest bar, and the same two averages on the bar before it
RuleSignal(hist) ==
    LET short     == WindowSum(hist, 10, 0)
        long      == WindowSum(hist, 20, 0)
        prevShort == WindowSum(hist, 10, 1)
        prevLong  == WindowSum(hist, 20, 1)
        rsi       == calculateRSI(LastN(hist, 20), 14)
    IN IF /\ 20 * short > 10 * long
          /\ 20 * prevShort <= 10 * prevLong
          /\ rsi.num < 70 * rsi.den
       THEN "BUY"
       ELSE IF /\ 20 * short < 10 * long
               /\ 20 * prevShort >= 10 * prevLong
               /\ rsi.num > 30 * rsi.den
       THEN "SELL"
       ELSE "HOLD"

\* C21: on a history of at least 21 bars generateTradingSignal returns BUY
\* exactly when the 10-bar average is above the 20-bar average on the newest
\* bar, was at or below it on the bar before (both averages over their full
\* window ending at that bar) and RSI < 70; SELL on the mirrored crossover
\* with RSI > 30; HOLD otherwise.
C21_CrossoverOnFullWindows ==
    (pc = "loop" /\ dayIdx > 0) =>
        \A symbol \in DOMAIN historicalData :
            LET hist == HistoryOnLastDate(symbol)
                bars == historicalData[symbol]
            IN Len(hist) >= 21 =>
                  generateTradingSignal(bars[Len(bars)], parameters.strategy, hist).type
                      = RuleSignal(hist)

-----------------------------------------------------------------------------
(* Properties of calculatePerformanceStats *)

\* the length of the longest run of consecutive trades of `trades` that all
\* satisfy Test
LongestRun(Test(_)) ==
    LET runs == { <<i, j>> \in (1..Len(trades)) \X (1..Len(trades)) :
                     i <= j /\ \A k \in i..j : Test(trades[k]) }
    IN IF runs = {} THEN 0
       ELSE LET longest == CHOOSE r \in runs :
                               \A q \in runs : q[2] - q[1] <= r[2] - r[1]
            IN longest[2] - longest[1] + 1

Wins(trade) == trade.profit > 0
Losses(trade) == trade.profit < 0

\* C22: for every list of trades, maxConsecutiveWins is the length of the
\* longest run of consecutive trades, in list order, that all have
\* profit > 0, and maxConsecutiveLosses that of the longest run with
\* profit < 0; a trade with profit 0 is in neither kind of run (and so ends
\* a run).
C22_StreaksAreLongestRuns ==
    (pc = "done" /\ performanceStats # Null) =>
        /\ performanceStats.maxConsecutiveWins = LongestRun(Wins)
        /\ performanceStats.maxConsecutiveLosses = LongestRun(Losses)


-----------------------------------------------------------------------------
(* calculateStopLossRecommendations: urgency buckets, filter and order *)

\* the position of `input` a recommendation was computed for
PositionOf(input, symbol) ==
    LET i == CHOOSE j \in 1..Len(input.positions) :
                 input.positions[j].symbol = symbol
    IN input.positions[i]

\* the urgencies the P&L buckets allow for a position bought at avgCost and
\* priced at currentPrice (scaled by StopScale): one urgency strictly inside a
\* bucket, any urgency on a bucket boundary or when the P&L percent is not a
\* number (avgCost = 0 = currentPrice)
BucketUrgencies(currentPrice, avgCost) ==
    LET cost == avgCost * StopScale
        gain == (currentPrice - cost) * 100
        all  == {"LOW", "MEDIUM", "HIGH", "CRITICAL"}
    IN IF cost = 0 THEN (IF currentPrice > 0 THEN {"LOW"} ELSE all)
       ELSE IF gain > 20 * cost THEN {"LOW"}
       ELSE IF gain > -5 * cost /\ gain < 20 * cost THEN {"MEDIUM"}
       ELSE IF gain > -15 * cost /\ gain < -5 * cost THEN {"HIGH"}
       ELSE IF gain < -15 * cost THEN {"CRITICAL"}
       ELSE all

\* C23: the urgency of every stop-loss recommendation is the one of the bucket
\* its unrealized P&L percent lies in (LOW above 20%, MEDIUM between -5% and
\* 20%, HIGH between -15% and -5%, CRITICAL below -15%), the recommendations
\* are exactly those of the OPEN positions with quantity > 0, and they are
\* ordered from highest to lowest urgency.
C23_UrgencyByBucketFilteredAndOrdered ==
    (/\ riskResult # Null
     /\ riskResult.operation = "calculateStopLossRecommendations") =>
        LET input == riskResult.input
            recs  == riskResult.result
            open  == { i \in 1..Len(input.positions) :
                         /\ input.positions[i].status = "OPEN"
                         /\ input.positions[i].quantity > 0 }
        IN /\ Len(recs) = Cardinality(open)
           /\ { recs[k].symbol : k \in 1..Len(recs) } =
                  { input.positions[i].symbol : i \in open }
           /\ \A k \in 1..Len(recs) :
                  recs[k].urgency \in
                      BucketUrgencies(recs[k].currentPrice,
                                      PositionOf(input, recs[k].symbol).avgCost)
           /\ \A k \in 1..(Len(recs) - 1) :
                  urgencyOrder(recs[k].urgency) >= urgencyOrder(recs[k + 1].urgency)

\* two positions given in the order LOW, CRITICAL come back as CRITICAL, LOW
C23_Witness ==
    /\ riskResult # Null
    /\ riskResult.operation = "calculateStopLossRecommendations"
    /\ Len(riskResult.input.positions) = 2
    /\ Len(riskResult.result) = 2
    /\ riskResult.result[1].symbol = "BBB"
    /\ riskResult.result[1].urgency = "CRITICAL"
    /\ riskResult.result[2].urgency = "LOW"
    /\ PositionOf(riskResult.input, "AAA").avgCost > 0


-----------------------------------------------------------------------------
(* runBacktest: the cash ledger against the trade records *)

\* the sum of the realized profits of the trades of the run
RealizedProfit == SumSeq([i \in 1..Len(trades) |-> trades[i].profit])

\* C24: at the return of every run the reported total return, final equity
\* minus initial capital, equals the sum of the realized profits of all the
\* closed trades of the run.
C24_TotalReturnIsRealizedProfit ==
    pc = "done" => resultMetrics.totalReturn = RealizedProfit


-----------------------------------------------------------------------------
(* executeEntry: the quantity of a position, and the cash *)

\* C25: every position opened by executeEntry has quantity >= 1; an entry
\* whose target size buys less than one share at the slipped entry price is
\* rejected and opens no position.
C25_EveryPositionHasAShare ==
    \A i \in 1..Len(positions) : positions[i].quantity >= 1

\* C26: with initial capital > 0, commission >= 0 and slippage >= 0 the
\* available cash is never negative, after any sequence of days, entries and
\* exits.
C26_CashNeverNegative ==
    currentCapital >= 0


-----------------------------------------------------------------------------
(* runBacktest: the strategy of the run *)

\* the step of the loop gave what it gives for the strategy s on the same bars
DayUnderStrategy(s) ==
    LET p       == [parameters EXCEPT !.strategy = s]
        key     == DateKey(BarTime(p, dayIdx))
        date    == DateOfKey(key)
        dayData == DayData(historicalData', p.symbols, key)
        exits   == processExistingPositions(positions, dayData, p)
        entered == EntriesFrom(dayData, 1, historicalData', date, p,
                     [positions |-> exits.remainingPositions,
                      currentCapital |->
                         currentCapital + exits.capitalFromClosedTrades])
    IN /\ trades' = trades \o exits.closedTrades
       /\ positions' = entered.positions
       /\ currentCapital' = entered.currentCapital
       /\ equityCurve' = Append(equityCurve,
              EquityPoint(p, date, entered.currentCapital, entered.positions,
                          dayData))

\* the end-of-period sweep gave what it gives for the strategy s
ReturnUnderStrategy(s) ==
    LET p == [parameters EXCEPT !.strategy = s]
    IN /\ trades' = trades \o FinalClosedTrades(positions, historicalData, p)
       /\ equityCurve' = equityCurve

-----------------------------------------------------------------------------
(* runBacktest: what closes a position *)

\* the signal computed for the one symbol of the run on the day of the step
SignalInStep ==
    LET symbol == parameters.symbols[1]
        bar == DayBar(symbol)
    IN generateTradingSignal(bar, parameters.strategy,
           HistoryUpTo(historicalData', symbol,
                       DateOfKey(DateKey(bar.timestamp))))

\* a day whose signal is SELL or HOLD opens nothing, closes only what a stop
\* or a target closes, and without such an exit leaves positions and cash
SellAndHoldChangeNothing ==
    (/\ pc = "loop" /\ pc' = "loop"
     /\ Len(parameters.symbols) = 1
     /\ SignalInStep.type \in {"SELL", "HOLD"}) =>
        /\ EntriesOf(positions') \subseteq EntriesOf(positions)
        /\ \A i \in 1..Len(positions) :
              EntryOf(positions[i]) \notin EntriesOf(positions') =>
                 \E j \in 1..Len(ClosedInStep) :
                    /\ EntryOf(ClosedInStep[j]) = EntryOf(positions[i])
                    /\ ClosedInStep[j].reason \in {"STOP_LOSS", "TAKE_PROFIT"}
        /\ trades' = trades =>
              positions' = positions /\ currentCapital' = currentCapital

\* the reasons of the trades, and no exit on the day of the entry except by
\* the end-of-period sweep
ClosedByStopTargetOrSweep ==
    \A i \in 1..Len(trades) :
        /\ trades[i].reason \in {"STOP_LOSS", "TAKE_PROFIT", "END_OF_PERIOD"}
        /\ trades[i].reason # "END_OF_PERIOD" =>
              DateKey(trades[i].exitDate) > DateKey(trades[i].entryDate)

\* C28: a SELL or HOLD signal leaves the cash and the open positions as they
\* are; positions are closed only by stop-loss, take-profit or the
\* end-of-period sweep, so no trade has reason SIGNAL_EXIT, and only the sweep
\* closes a position on the day it was opened.
C28_OnlyStopsTargetsAndSweepClose ==
    []ClosedByStopTargetOrSweep /\ [][SellAndHoldChangeNothing]_vars

\* C28 witness: the newest day's signal is SELL, with a position opened on an
\* earlier day still open after it
C28_Witness ==
    /\ pc = "loop"
    /\ dayIdx > 0
    /\ Len(parameters.symbols) = 1
    /\ SignalOnLastDate(parameters.symbols[1]).type = "SELL"
    /\ Len(positions) > 0
    /\ OpenedOnLastDate = {}


-----------------------------------------------------------------------------
(* calculatePositionSize: the risk of the recommended position *)

\* C29: for every input whose entry price differs from its stop price, the
\* returned riskAmount (recommendedShares times |entryPrice - stopLossPrice|)
\* does not exceed the tolerance-scaled risk budget,
\* portfolioValue * riskPerTrade / 100 * toleranceMultiplier.
C29_RiskWithinBudget ==
    (/\ riskResult # Null
     /\ riskResult.operation = "calculatePositionSize"
     /\ riskResult.input.entryPrice # riskResult.input.stopLossPrice) =>
        ~Exceeds(Times(riskResult.result.riskAmount, 200),
                 [num |-> RiskAmount200(riskResult.input), den |-> 1])


-----------------------------------------------------------------------------
(* calculatePortfolioRisk: maxDrawdown *)

\* C30: for every list of trades (the empty list, a list whose first trade
\* is a loss, a list whose running profit never becomes positive) the
\* maxDrawdown of calculatePortfolioRisk is a finite number >= 0, neither NaN
\* nor infinite.
C30_MaxDrawdownFinite ==
    (/\ riskResult # Null
     /\ riskResult.operation = "calculatePortfolioRisk") =>
        /\ riskResult.result.maxDrawdown.class = "exact"
        /\ riskResult.result.maxDrawdown.num >= 0

=============================================================================
